---------------------------- MODULE Spec2Model ----------------------------
(***************************************************************************)
(* Model of the Alloy controller completion provider                       *)
(* (providers/completion/controllerCompletionItemProvider.ts), of the      *)
(* project-modified wiring of extension.ts and of the TSS completion       *)
(* provider as its test suite describes it.                                *)
(*                                                                         *)
(* Text is a sequence of one-character strings.  Regular expressions are   *)
(* syntax trees; the matcher follows the backtracking order of ECMAScript   *)
(* (leftmost start, alternatives left to right, greedy quantifiers longest *)
(* first, lazy ones shortest first).                                       *)
(***************************************************************************)
EXTENDS Integers, Sequences, FiniteSets, TLC

----------------------------------------------------------------------------
(* Characters                                                              *)

Lower == {"a","b","c","d","e","f","g","h","i","j","k","l","m",
          "n","o","p","q","r","s","t","u","v","w","x","y","z"}
Upper == {"A","B","C","D","E","F","G","H","I","J","K","L","M",
          "N","O","P","Q","R","S","T","U","V","W","X","Y","Z"}
Digit == {"0","1","2","3","4","5","6","7","8","9"}
Punct == {"$", ".", "(", ")", "'", "\"", "-", "_", "/", "<", ">", "=",
          ":", ";", ",", "#"}
Space == {" ", "\t", "\n"}
Char  == Lower \cup Upper \cup Digit \cup Punct \cup Space

\* \w, \S, . and the class [-a-zA-Z0-9-_] of the provider's patterns
WordCh  == Lower \cup Upper \cup Digit \cup {"_"}
NonSpCh == Char \ Space
AnyCh   == Char \ {"\n"}
IdCh    == Lower \cup Upper \cup Digit \cup {"-", "_"}

LowerSeq == <<"a","b","c","d","e","f","g","h","i","j","k","l","m",
              "n","o","p","q","r","s","t","u","v","w","x","y","z">>
UpperSeq == <<"A","B","C","D","E","F","G","H","I","J","K","L","M",
              "N","O","P","Q","R","S","T","U","V","W","X","Y","Z">>

\* both cases of a letter (the i flag), the character itself otherwise
BothCases(c) ==
    IF \E k \in 1..26 : c = LowerSeq[k] \/ c = UpperSeq[k]
    THEN LET k == CHOOSE k \in 1..26 : c = LowerSeq[k] \/ c = UpperSeq[k]
         IN  {LowerSeq[k], UpperSeq[k]}
    ELSE {c}

----------------------------------------------------------------------------
(* Regular expression syntax                                               *)

Cls(S)      == [t |-> "cls", cs |-> S]
\* a literal text; ci: under the i flag
Lit(s)      == [t |-> "lit", s |-> s, ci |-> FALSE]
LitI(s)     == [t |-> "lit", s |-> s, ci |-> TRUE]
Cat(rs)     == [t |-> "cat", rs |-> rs]
Alt(rs)     == [t |-> "alt", rs |-> rs]
\* r* for any r
Star(r)     == [t |-> "star", r |-> r]
\* [S]*, [S]+ and the lazy [S]+? of a character class
ClsStar(S)     == [t |-> "run", cs |-> S, min |-> 0, lazy |-> FALSE]
ClsPlus(S)     == [t |-> "run", cs |-> S, min |-> 1, lazy |-> FALSE]
LazyClsPlus(S) == [t |-> "run", cs |-> S, min |-> 1, lazy |-> TRUE]
Grp(g, r)   == [t |-> "grp", g |-> g, r |-> r]
Eol         == [t |-> "eol"]
Bol         == [t |-> "bol"]
Empty       == Cat(<<>>)
Opt(r)      == Alt(<<r, Empty>>)

MaxGroups == 3
NoCaps    == [g \in 1..MaxGroups |-> <<0, 0>>]
NoMatch   == [ok |-> FALSE, index |-> 0, end |-> 0, caps |-> NoCaps]

\* whether literal n is at position i of s
LitAt(n, s, i) ==
    /\ i + Len(n.s) - 1 <= Len(s)
    /\ \A k \in 1..Len(n.s) :
          IF n.ci THEN s[i + k - 1] \in BothCases(n.s[k]) ELSE s[i + k - 1] = n.s[k]

\* the position after the longest run of characters of cs that starts at i
RunEnd(cs, s, i) ==
    LET stops == {j \in i..Len(s) : s[j] \notin cs}
    IN  IF stops = {} THEN Len(s) + 1
        ELSE CHOOSE j \in stops : \A k \in stops : j <= k

(***************************************************************************)
(* M(n, s, W): the ways node n continues the ways W of matching s.  A way  *)
(* is [end, caps, key]: end is the position after the match so far, caps   *)
(* the capture groups and key the choices taken so far, in order, a        *)
(* smaller number for the choice backtracking tries earlier (the           *)
(* alternative further left, the longer run of a greedy quantifier, the    *)
(* shorter one of a lazy quantifier, one more iteration before none).  The *)
(* match RegExp.prototype.exec returns is the way with the least key.      *)
(***************************************************************************)
Way(end, caps, key) == [end |-> end, caps |-> caps, key |-> key]

\* backtracking tries the choices a before the choices b
Before(a, b) ==
    \E k \in 1..Len(a) :
        /\ k <= Len(b)
        /\ a[k] < b[k]
        /\ \A j \in 1..(k - 1) : a[j] = b[j]

\* the ways W without those that another way of W, tried before, ends as:
\* what follows succeeds for the earlier one just as well
Best(W) ==
    {w \in W : \A v \in W : v.end = w.end /\ v.caps = w.caps => ~Before(v.key, w.key)}

\* the ways W after choice c
Took(W, c) == {[w EXCEPT !.key = Append(@, c)] : w \in W}

RECURSIVE M(_, _, _)
RECURSIVE MSeq(_, _, _)
RECURSIVE MStar(_, _, _)

\* the nodes rs one after the other
MSeq(rs, s, W) ==
    IF W = {} \/ rs = <<>> THEN W
    ELSE IF Len(rs) = 1 THEN M(rs[1], s, W)
    ELSE LET half == Len(rs) \div 2
             left == MSeq(SubSeq(rs, 1, half), s, W)
         IN  IF left = {} THEN {}
             ELSE MSeq(SubSeq(rs, half + 1, Len(rs)), s, left)

\* r*: one more iteration that is not empty, then r* again; or no iteration
MStar(r, s, W) ==
    IF W = {} THEN {}
    ELSE LET once == UNION {{v \in M(r, s, Took({w \in W : w.end = p}, 0)) : v.end > p} :
                              p \in {w.end : w \in W}}
             more == Best(once)
         IN  Took(W, 1) \cup MStar(r, s, more)

M(n, s, W) ==
    CASE n.t = "cls" ->
            {Way(w.end + 1, w.caps, w.key) :
                w \in {w \in W : w.end <= Len(s) /\ s[w.end] \in n.cs}}
      [] n.t = "lit" ->
            {Way(w.end + Len(n.s), w.caps, w.key) : w \in {w \in W : LitAt(n, s, w.end)}}
      [] n.t = "run" ->
            UNION {{Way(e, w.caps, Append(w.key, IF n.lazy THEN e ELSE Len(s) + 1 - e)) :
                        e \in (w.end + n.min)..RunEnd(n.cs, s, w.end)} : w \in W}
      [] n.t = "cat" -> MSeq(n.rs, s, W)
      [] n.t = "alt" -> UNION {M(n.rs[a], s, Took(W, a)) : a \in 1..Len(n.rs)}
      [] n.t = "star" -> Best(MStar(n.r, s, W))
      [] n.t = "grp" ->
            UNION {{[v EXCEPT !.caps[n.g] = <<w.end, v.end>>] : v \in M(n.r, s, {w})} :
                      w \in W}
      [] n.t = "eol" -> {w \in W : w.end = Len(s) + 1}
      [] n.t = "bol" -> {w \in W : w.end = 1}

\* RegExp.prototype.exec from lastIndex `from` (1-based): the start position
\* is the first choice, the leftmost first
ExecFrom(re, s, from) ==
    LET ways == M(re, s, {Way(i, NoCaps, <<i>>) : i \in from..(Len(s) + 1)})
    IN  IF ways = {} THEN NoMatch
        ELSE LET way == CHOOSE w \in ways : \A v \in ways : ~Before(v.key, w.key)
             IN  [ok |-> TRUE, index |-> way.key[1], end |-> way.end, caps |-> way.caps]

Exec(re, s) == ExecFrom(re, s, 1)
Test(re, s) == Exec(re, s).ok

\* the text of capture group g of a match (<<>> when the group is unset)
Group(m, s, g) == SubSeq(s, m.caps[g][1], m.caps[g][2] - 1)

----------------------------------------------------------------------------
(* String helpers of the JavaScript runtime                                *)

\* s.indexOf(t) === 0
StartsWith(s, t) == Len(t) <= Len(s) /\ SubSeq(s, 1, Len(t)) = t
\* s.indexOf(t) !== -1
Includes(s, t) == Test(Lit(t), s)
\* s.replace(t, ''): the first occurrence only
RemoveFirst(s, t) ==
    LET m == Exec(Lit(t), s)
    IN  IF m.ok THEN SubSeq(s, 1, m.index - 1) \o SubSeq(s, m.end, Len(s)) ELSE s
\* s.split(c).pop(): the text after the last c
AfterLast(s, c) ==
    LET at == {k \in 1..Len(s) : s[k] = c}
    IN  IF at = {} THEN s
        ELSE SubSeq(s, (CHOOSE k \in at : \A j \in at : j <= k) + 1, Len(s))
\* document.positionAt(index).line start: the position after the last newline
LineStart(text, index) ==
    LET breaks == {k \in 1..(index - 1) : text[k] = "\n"}
    IN  IF breaks = {} THEN 1
        ELSE (CHOOSE k \in breaks : \A j \in breaks : j <= k) + 1
\* document.getText(new Range(line, 0, line, character)) for positionAt(index)
LineBefore(text, index) == SubSeq(text, LineStart(text, index), index - 1)

\* utils.matches(text, test): new RegExp(test, 'i').test(text)
matches(text, test) == Test(LitI(test), text)

----------------------------------------------------------------------------
(* The patterns of ControllerCompletionItemProvider                        *)

Quote == Cls({"\"", "'"})

\* /\$\.([-a-zA-Z0-9-_]*)$/
reAlloyId == Cat(<<Lit(<<"$",".">>), Grp(1, ClsStar(IdCh)), Eol>>)
\* /\$\.([-a-zA-Z0-9-_]*).([-a-zA-Z0-9-_]*)$/
reIdMember == Cat(<<Lit(<<"$",".">>), Grp(1, ClsStar(IdCh)), Cls(AnyCh), Grp(2, ClsStar(IdCh)), Eol>>)
\* /(?:Ti|Titanium)\.?\S+/i
reTitaniumApi == Cat(<<Alt(<<LitI(<<"T","i">>), LitI(<<"T","i","t","a","n","i","u","m">>)>>), Opt(Cls({"."})), ClsPlus(NonSpCh)>>)
\* /\$\.([-a-zA-Z0-9-_]*)\.(add|remove)EventListener\(["']([-a-zA-Z0-9-_/]*)$/
reEventName == Cat(<<Lit(<<"$",".">>), Grp(1, ClsStar(IdCh)), Lit(<<".">>),
                     Grp(2, Alt(<<Lit(<<"a","d","d">>), Lit(<<"r","e","m","o","v","e">>)>>)),
                     Lit(<<"E","v","e","n","t","L","i","s","t","e","n","e","r","(">>), Quote, Grp(3, ClsStar(IdCh \cup {"/"})), Eol>>)
\* /require\(["']?([^'");]*)["']?\)?$/
reRequire == Cat(<<Lit(<<"r","e","q","u","i","r","e","(">>), Opt(Quote),
                   Grp(1, ClsStar(Char \ {"'", "\"", ")", ";"})),
                   Opt(Quote), Opt(Cls({")"})), Eol>>)
\* /Alloy\.(createController|Controllers\.instance)\(["']([-a-zA-Z0-9-_/]*["']?\)?)$/
reCreateController == Cat(<<Lit(<<"A","l","l","o","y",".">>),
                            Grp(1, Alt(<<Lit(<<"c","r","e","a","t","e","C","o","n","t","r","o","l","l","e","r">>), Lit(<<"C","o","n","t","r","o","l","l","e","r","s",".","i","n","s","t","a","n","c","e">>)>>)),
                            Lit(<<"(">>), Quote,
                            Grp(2, Cat(<<ClsStar(IdCh \cup {"/"}), Opt(Quote), Opt(Cls({")"}))>>)), Eol>>)
\* /Alloy\.(createModel|Models\.instance|createCollection|Collections\.instance)\(["']([-a-zA-Z0-9-_/]*)$/
reCreateModel == Cat(<<Lit(<<"A","l","l","o","y",".">>),
                       Grp(1, Alt(<<Lit(<<"c","r","e","a","t","e","M","o","d","e","l">>), Lit(<<"M","o","d","e","l","s",".","i","n","s","t","a","n","c","e">>),
                                    Lit(<<"c","r","e","a","t","e","C","o","l","l","e","c","t","i","o","n">>), Lit(<<"C","o","l","l","e","c","t","i","o","n","s",".","i","n","s","t","a","n","c","e">>)>>)),
                       Lit(<<"(">>), Quote, Grp(2, ClsStar(IdCh \cup {"/"})), Eol>>)
\* /Alloy\.(createWidget|Widgets\.instance)\(["']([-a-zA-Z0-9-_/.]*)$/
reCreateWidget == Cat(<<Lit(<<"A","l","l","o","y",".">>),
                        Grp(1, Alt(<<Lit(<<"c","r","e","a","t","e","W","i","d","g","e","t">>), Lit(<<"W","i","d","g","e","t","s",".","i","n","s","t","a","n","c","e">>)>>)),
                        Lit(<<"(">>), Quote, Grp(2, ClsStar(IdCh \cup {"/", "."})), Eol>>)
\* /(?:Alloy)\.?\S+/
reAlloyApi == Cat(<<Lit(<<"A","l","l","o","y">>), Opt(Cls({"."})), ClsPlus(NonSpCh)>>)

\* /\$\.([-a-zA-Z0-9-_]*)\.?$/  (getMethodAndPropertyCompletions)
reMemberId == Cat(<<Lit(<<"$",".">>), Grp(1, ClsStar(IdCh)), Opt(Cls({"."})), Eol>>)
\* new RegExp(`id=["']${id}["']`, 'g'); an id holds no pattern metacharacter
reIdAttr(id) == Cat(<<Lit(<<"i","d","=">>), Quote, Lit(id), Quote>>)
\* /<([a-zA-Z][-a-zA-Z]*)(?:\s|$)/
reTag == Cat(<<Lit(<<"<">>), Grp(1, Cat(<<Cls(Lower \cup Upper), ClsStar(Lower \cup Upper \cup {"-"})>>)),
               Alt(<<Cls(Space), Eol>>)>>)
\* /id="(.+?)"/g  (getIdCompletions)
reIdValue == Cat(<<Lit(<<"i","d","=","\"">>), Grp(1, LazyClsPlus(AnyCh)), Lit(<<"\"">>)>>)
\* /(Ti\.(?:(?:[A-Z]\w*|iOS|iPad)\.?)*)([a-z]\w*)*$/
reTiApiName == Cat(<<Grp(1, Cat(<<Lit(<<"T","i",".">>),
                       Star(Cat(<<Alt(<<Cat(<<Cls(Upper), ClsStar(WordCh)>>), Lit(<<"i","O","S">>), Lit(<<"i","P","a","d">>)>>),
                                  Opt(Cls({"."}))>>))>>)),
                     Star(Grp(2, Cat(<<Cls(Lower), ClsStar(WordCh)>>))), Eol>>)
\* /(Alloy\.(?:(?:[A-Z]\w*)\.?)*)([a-z]\w*)*$/
reAlloyApiName == Cat(<<Grp(1, Cat(<<Lit(<<"A","l","l","o","y",".">>),
                          Star(Cat(<<Cls(Upper), ClsStar(WordCh), Opt(Cls({"."}))>>))>>)),
                        Star(Grp(2, Cat(<<Cls(Lower), ClsStar(WordCh)>>))), Eol>>)

----------------------------------------------------------------------------
(* The completion catalog (completion.loadCompletions) and the project     *)

SdkVersions == {"8.1.0.GA", "9.0.0.GA"}

\* titanium.types of the catalog of an SDK version, in key order
TitaniumTypes(sdk) ==
    << [name |-> <<"T","i",".","U","I">>, functions |-> <<<<"c","r","e","a","t","e","L","a","b","e","l">>>>, properties |-> <<>>, events |-> <<>>],
       [name |-> <<"T","i",".","U","I",".","L","a","b","e","l">>,
        functions |-> IF sdk = "8.1.0.GA" THEN <<<<"h","i","d","e">>>> ELSE <<<<"h","i","d","e">>, <<"s","h","o","w">>>>,
        properties |-> <<<<"t","e","x","t">>>>, events |-> <<<<"c","l","i","c","k">>>>] >>
\* titanium.properties of the catalog: name and listed values
TitaniumProperties ==
    << [name |-> <<"b","a","c","k","g","r","o","u","n","d","C","o","l","o","r">>, values |-> <<>>],
       [name |-> <<"c","a","n","S","c","r","o","l","l">>, values |-> <<>>],
       [name |-> <<"c","o","l","o","r">>, values |-> <<>>],
       [name |-> <<"l","a","y","o","u","t">>, values |-> <<>>],
       [name |-> <<"s","e","p","a","r","a","t","o","r","S","t","y","l","e">>,
        values |-> <<<<"T","i",".","U","I",".","T","A","B","L","E","_","V","I","E","W","_","S","E","P","A","R","A","T","O","R","_","S","T","Y","L","E","_","N","O","N","E">>,
                     <<"T","i",".","U","I",".","T","A","B","L","E","_","V","I","E","W","_","S","E","P","A","R","A","T","O","R","_","S","T","Y","L","E","_","S","I","N","G","L","E","_","L","I","N","E">>>>] >>
\* alloy.tags: tag name -> apiName
AlloyTags ==
    << [name |-> <<"L","a","b","e","l">>, apiName |-> <<"T","i",".","U","I",".","L","a","b","e","l">>],
       [name |-> <<"A","c","t","i","o","n","V","i","e","w">>, apiName |-> <<"_","P","r","o","x","y","P","r","o","p","e","r","t","y",".","A","c","t","i","o","n","V","i","e","w">>] >>
\* alloy.types
AlloyTypes ==
    << [name |-> <<"A","l","l","o","y">>, functions |-> <<<<"c","r","e","a","t","e","M","o","d","e","l">>>>, properties |-> <<<<"C","F","G">>>>, events |-> <<>>],
       [name |-> <<"A","l","l","o","y",".","G","l","o","b","a","l","s">>, functions |-> <<>>, properties |-> <<>>, events |-> <<>>] >>

Catalog(sdk) == [alloy |-> [tags |-> AlloyTags, types |-> AlloyTypes],
                 titanium |-> [types |-> TitaniumTypes(sdk), properties |-> TitaniumProperties]]
Unloaded == [alloy |-> <<>>, titanium |-> <<>>]

\* obj[key] of a catalog object: Has is the truthiness of obj[key]
Has(obj, key) == \E k \in 1..Len(obj) : obj[k].name = key
Get(obj, key) == obj[CHOOSE k \in 1..Len(obj) : obj[k].name = key]

\* the js files below app/<directory> (utils.filterJSFiles), relative paths
JsFiles(directory) ==
    CASE directory = "models" -> <<<<"u","s","e","r",".","j","s">>>>
      [] directory = "controllers" -> <<<<"i","n","d","e","x",".","j","s">>>>
      [] directory = "lib" -> <<<<"u","t","i","l",".","j","s">>>>
      [] OTHER -> <<>>
\* the dependencies of app/config.json
WidgetDependencies == <<<<"c","o","m",".","w">>>>
\* the path related.getTargetPath('xml') gives when the view exists
RelatedPath == <<"a","p","p","/","v","i","e","w","s","/","i","n","d","e","x",".","x","m","l">>

----------------------------------------------------------------------------
(* State                                                                   *)

VARIABLES
    relatedView,   \* the related view file of the edited controller (NoView: none)
    tiappSdk,      \* project.sdk(): the sdk-version tags of tiapp.xml
    thisCompletions, \* this.completions of the provider (Unloaded before the first request)
    pc,            \* position of the completion request
    requestPrefix, \* the line prefix of the request
    result,        \* what the request answered
    readView,      \* the view as it was when the request read it
    before,        \* the request answered before this one: line, view read, result
    projectValid,  \* project.isValid()
    projectKind,   \* "app" (project.isTitaniumApp) or "module" (project.isTitaniumModule)
    sdkInfo,       \* the SDK versions appc.sdkInfo knows
    projectStatusBarItem, \* the status bar item of the project
    received,      \* number of project-modified events delivered so far
    runs,          \* the run of generateCompletions each event started
    generated,     \* the SDK versions whose completions have been generated
    styleLine,     \* the line of the .tss document the style request is on
    styleChar,     \* position.character of the style request
    stylePc,       \* position of the style request
    styleCompletions, \* this.completions of the style provider
    styleResult,   \* what the style request answered
    refFiles,      \* getReferences: the files to search
    refGlobal,     \* getReferences: whether regExp has the g flag
    refAt,         \* getReferences: how many files the loop has gone through
    refLastIndex,  \* getReferences: regExp.lastIndex
    refDefinitions, \* getReferences: the definitions array
    refPc,         \* getReferences: position of the call
    updGiven,      \* installUpdates: updateInfo as the caller gave it
    updList,       \* installUpdates: updateInfo
    updIncrement,  \* installUpdates: incrementProgress
    updAt,         \* installUpdates: counter
    updPc,         \* installUpdates: position of the call
    updProgress,   \* installUpdates: what progress.report was given, in order
    updStatus,     \* installUpdates: how far the action of each update is
    updStarted,    \* installUpdates: the updates whose action was called, in order
    updTerminal,   \* the commands given to ExtensionContainer.terminal
    initPc,        \* init: position of the call
    lastUpdateCheck, \* globalState: GlobalState.LastUpdateCheck (NoTime: not stored)
    updateInterval, \* ms(config.general.updateFrequency) (NoTime: not a duration)
    initRead,      \* init: the lastUpdateCheck the callback of appc.getInfo read
    initNow,       \* init: Date.now() in the callback of appc.getInfo
    initCommands,  \* init: the commands executed, in order
    initRun,       \* init: the run of generateCompletions it started
    dbgBuilds,     \* the BUILD requests relayed from debug sessions and their builds
    explorerUpdates, \* updateExplorer.updates
    hasUpdates,    \* globalState: GlobalState.HasUpdates ("unset": not stored)
    chkPc,         \* CheckForUpdates: position of the command
    chkBefore,     \* CheckForUpdates: HasUpdates when the command was executed
    chkCount,      \* CheckForUpdates: numberOfUpdates
    chkPrompt,     \* CheckForUpdates: the information message shown
    chkChoice,     \* CheckForUpdates: what the user chose
    chkCommands,   \* CheckForUpdates: the commands executed, in order
    dbgSent        \* the extensionResponse requests sent to the sessions

controllerVars == <<relatedView, thisCompletions, pc, requestPrefix, result, readView, before>>
projectVars == <<projectValid, projectKind, sdkInfo, projectStatusBarItem, received, runs, generated>>
styleVars == <<styleLine, styleChar, stylePc, styleCompletions, styleResult>>

referenceVars == <<refFiles, refGlobal, refAt, refLastIndex, refDefinitions, refPc>>
updateVars == <<updGiven, updList, updIncrement, updAt, updPc, updProgress, updStatus, updStarted, updTerminal>>
initVars == <<initPc, lastUpdateCheck, updateInterval, initRead, initNow, initCommands, initRun>>
debugVars == <<dbgBuilds, dbgSent>>
checkVars == <<explorerUpdates, hasUpdates, chkPc, chkBefore, chkCount, chkPrompt, chkChoice, chkCommands>>
serviceVars == <<referenceVars, updateVars, initVars, debugVars, checkVars>>
coreVars == <<tiappSdk, controllerVars, projectVars, styleVars>>
notReferences == <<coreVars, updateVars, initVars, debugVars, checkVars>>
notUpdates == <<coreVars, referenceVars, initVars, debugVars, checkVars>>
notInit == <<coreVars, referenceVars, updateVars, debugVars, checkVars>>
notCheck == <<coreVars, referenceVars, updateVars, initVars, debugVars>>
notDebug == <<coreVars, referenceVars, updateVars, initVars, checkVars>>

vars == <<tiappSdk, controllerVars, projectVars, styleVars, serviceVars>>

----------------------------------------------------------------------------
(* The related view: elements, one per line, each with its attributes      *)

Attr(name, q, value) == [name |-> name, q |-> q, value |-> value]
Element(tag, attrs)  == [tag |-> tag, attrs |-> attrs]

RECURSIVE RenderAttrs(_)
RenderAttrs(attrs) ==
    IF attrs = <<>> THEN <<>>
    ELSE LET a == Head(attrs)
         IN  <<" ">> \o a.name \o <<"=">> \o <<a.q>> \o a.value \o <<a.q>> \o RenderAttrs(Tail(attrs))
RenderElement(e) == <<"<">> \o e.tag \o RenderAttrs(e.attrs) \o <<"/",">">>
RECURSIVE Render(_)
Render(view) ==
    IF view = <<>> THEN <<>>
    ELSE IF Len(view) = 1 THEN RenderElement(view[1])
    ELSE RenderElement(Head(view)) \o <<"\n">> \o Render(Tail(view))

NoView == <<>>
ViewTitle == << Element(<<"L","a","b","e","l">>, <<Attr(<<"i","d">>, "\"", <<"t","i","t","l","e">>)>>) >>
ViewThree == << Element(<<"L","a","b","e","l">>, <<Attr(<<"i","d">>, "\"", <<"t","i","t","l","e">>)>>),
                Element(<<"W","i","n","d","o","w">>, <<Attr(<<"i","d">>, "\"", <<"b">>)>>),
                Element(<<"L","a","b","e","l">>, <<Attr(<<"i","d">>, "\"", <<"t","i","t","l","e">>)>>) >>
ViewTagIds == << Element(<<"L","a","b","e","l">>, <<Attr(<<"i","d">>, "\"", <<"A","c","t","i","o","n","V","i","e","w">>)>>),
                 Element(<<"A","c","t","i","o","n","V","i","e","w">>, <<Attr(<<"i","d">>, "\"", <<"L","a","b","e","l">>)>>) >>
ViewTextId == << Element(<<"L","a","b","e","l">>, <<Attr(<<"t","e","x","t","i","d">>, "\"", <<"b">>), Attr(<<"i","d">>, "'", <<"t","i","t","l","e">>)>>) >>
Views == {NoView, ViewTitle, ViewThree, ViewTagIds, ViewTextId}

\* related.getTargetPath('xml'): undefined (<<>>) when there is no related view
getTargetPath(view) == IF view = NoView THEN <<>> ELSE RelatedPath
\* the text of a document that is kept from the request answered before
getTextKept(view) == IF before.any THEN Render(before.view) ELSE Render(view)
\* (await workspace.openTextDocument(relatedFile)).getText(): the text of the
\* file as it is now
getText(view) == Render(view)

----------------------------------------------------------------------------
(* Completion results                                                      *)

Ok(items) == [raised |-> FALSE, items |-> items]
\* a TypeError thrown by the handler: the returned promise rejects
Raised    == [raised |-> TRUE, items |-> <<>>]

RECURSIVE MapItems(_, _, _)
\* one item per value, of the given kind; Method and Property items of the
\* member completions carry a snippet
MapItems(values, kind, snippet) ==
    IF values = <<>> THEN <<>>
    ELSE LET v == Head(values)
             item == IF snippet = "call" THEN [label |-> v, kind |-> kind, insertText |-> v \o <<"(","$","1",")","$","0">>]
                     ELSE IF snippet = "assign" THEN [label |-> v, kind |-> kind, insertText |-> v \o <<" ","="," ","$","1","$","0">>]
                     ELSE [label |-> v, kind |-> kind]
         IN  <<item>> \o MapItems(Tail(values), kind, snippet)

RECURSIVE idLoop(_, _, _, _, _)
\* the exec loop of getIdCompletions; lastIndex is the position after a match
idLoop(text, lastIndex, ids, completions, fileName) ==
    LET m == ExecFrom(reIdValue, text, lastIndex)
    IN  IF ~m.ok THEN completions
        ELSE LET id == Group(m, text, 1)
             IN  IF \E k \in 1..Len(ids) : ids[k] = id
                 THEN idLoop(text, m.end, ids, completions, fileName)
                 ELSE idLoop(text, m.end, Append(ids, id),
                             Append(completions, [label |-> id, kind |-> "Reference", detail |-> fileName]),
                             fileName)

\* the items of the ids found in the text of the related view
idItems(relatedFile, text) == idLoop(text, 1, <<>>, <<>>, AfterLast(relatedFile, "/"))

getIdCompletions(view) ==
    LET relatedFile == getTargetPath(view)
    IN  IF relatedFile = <<>> THEN Ok(<<>>)
        ELSE Ok(idItems(relatedFile, getText(view)))

\* the tag name found before the first `id="<id>"` of the text, on its line;
\* [found, name]
closestTag(text, id) ==
    LET ids == Exec(reIdAttr(id), text)
    IN  IF ~ids.ok THEN [found |-> FALSE, name |-> <<>>]
        ELSE LET before_ == LineBefore(text, ids.index)
                 closestId == Exec(reTag, before_)
             IN  IF closestId.ok THEN [found |-> TRUE, name |-> Group(closestId, before_, 1)]
                 ELSE [found |-> FALSE, name |-> <<>>]

\* the functions, then the properties, of the type of the tag
tagMembers(tag, completions) ==
    LET tagName == tag.name
        tags == completions.alloy.tags
        types == completions.titanium.types
    IN  IF tag.found /\ tagName # <<>> /\ Has(tags, tagName)
        THEN LET apiName == Get(tags, tagName).apiName
             IN  IF Has(types, apiName)
                 THEN LET tagObj == Get(types, apiName)
                      IN  Ok(MapItems(tagObj.functions, "Method", "call")
                             \o MapItems(tagObj.properties, "Property", "assign"))
                 ELSE Ok(<<>>)
        ELSE Ok(<<>>)

getMethodAndPropertyCompletions(linePrefix, completions, view) ==
    LET m == Exec(reMemberId, linePrefix)
    IN  IF ~m.ok THEN Raised       \* null[1]
        ELSE
        LET id == Group(m, linePrefix, 1)
            relatedFile == getTargetPath(view)
        IN  IF relatedFile = <<>> THEN Ok(<<>>)
            ELSE tagMembers(closestTag(getText(view), id), completions)

RECURSIVE eventItems(_, _)
eventItems(events, apiName) ==
    IF events = <<>> THEN <<>>
    ELSE <<[label |-> Head(events), kind |-> "Event", detail |-> apiName]>>
         \o eventItems(Tail(events), apiName)

\* the events of the type of tagName, which is set to matches[1], the id of
\* the line, when a tag was found
tagEvents(tag, id, completions) ==
    LET tagName == IF tag.found THEN id ELSE <<>>
        tags == completions.alloy.tags
        types == completions.titanium.types
    IN  IF tagName # <<>> /\ Has(tags, tagName)
        THEN LET apiName == Get(tags, tagName).apiName
             IN  IF Has(types, apiName)
                 THEN Ok(eventItems(Get(types, apiName).events, apiName))
                 ELSE Raised      \* tagObj.events of undefined
        ELSE Ok(<<>>)

getEventNameCompletions(linePrefix, completions, view) ==
    LET m == Exec(reEventName, linePrefix)
    IN  IF ~m.ok THEN Ok(<<>>)
        ELSE
        LET id == Group(m, linePrefix, 1)
            relatedFile == getTargetPath(view)
        IN  IF relatedFile = <<>> THEN Ok(<<>>)
            ELSE tagEvents(closestTag(getText(view), id), id, completions)

RECURSIVE classItems(_, _)
\* the keys of types that start with apiName and hold no '_'
classItems(types, apiName) ==
    IF types = <<>> THEN <<>>
    ELSE LET key == Head(types).name
         IN  (IF StartsWith(key, apiName) /\ ~Includes(key, <<"_">>)
              THEN <<[label |-> key, kind |-> "Class", insertText |-> AfterLast(key, ".")]>>
              ELSE <<>>) \o classItems(Tail(types), apiName)

RECURSIVE memberItems(_, _, _, _)
\* the functions or properties that match the attribute and are not deprecated
memberItems(values, kind, hasAttribute, attribute) ==
    IF values = <<>> THEN <<>>
    ELSE LET v == Head(values)
         IN  (IF (~hasAttribute \/ matches(v, attribute)) /\ ~Includes(v, <<"d","e","p","r","e","c","a","t","e","d">>)
              THEN <<[label |-> v, kind |-> kind]>> ELSE <<>>)
             \o memberItems(Tail(values), kind, hasAttribute, attribute)

\* the part of the two API handlers after the match: apiName without its
\* trailing dot, class suggestions, then functions and properties
apiCompletions(types, name, hasAttribute, attribute) ==
    LET apiName == IF name # <<>> /\ name[Len(name)] = "." THEN SubSeq(name, 1, Len(name) - 1) ELSE name
        classes == IF ~hasAttribute THEN classItems(types, apiName) ELSE <<>>
    IN  IF Has(types, apiName)
        THEN LET apiObj == Get(types, apiName)
             IN  Ok(classes \o memberItems(apiObj.functions, "Method", hasAttribute, attribute)
                            \o memberItems(apiObj.properties, "Property", hasAttribute, attribute))
        ELSE Ok(classes)

getTitaniumApiCompletions(linePrefix, completions) ==
    LET m == Exec(reTiApiName, linePrefix)
        types == completions.titanium.types
    IN  IF ~m.ok THEN Ok(<<>>)
        ELSE
        LET name == Group(m, linePrefix, 1)
            attr == Group(m, linePrefix, 2)
            stripped == IF name[Len(name)] = "." THEN SubSeq(name, 1, Len(name) - 1) ELSE name
            \* 'iOS'.indexOf(attribute) === 0 || 'iPad'.indexOf(attribute) === 0
            platform == attr # <<>> /\ (StartsWith(<<"i","O","S">>, attr) \/ StartsWith(<<"i","P","a","d">>, attr))
        IN  IF platform THEN apiCompletions(types, stripped \o <<".">> \o attr, FALSE, <<>>)
            ELSE apiCompletions(types, name, attr # <<>>, attr)

getAlloyApiCompletions(linePrefix, completions) ==
    LET m == Exec(reAlloyApiName, linePrefix)
        types == completions.alloy.types
    IN  IF ~m.ok THEN Ok(<<>>)
        ELSE LET attr == Group(m, linePrefix, 2)
             IN  apiCompletions(types, Group(m, linePrefix, 1), attr # <<>>, attr)

\* document.getWordRangeAtPosition(position, regex) with the caret at the end
\* of the line: the columns of the run of class characters ending at the
\* caret, <<>> (undefined) when the character before the caret is not one
wordStart(line, col, cs) ==
    LET stops == {k \in 1..col : line[k] \notin cs}
    IN  IF stops = {} THEN 0 ELSE CHOOSE k \in stops : \A j \in stops : j <= k
getWordRangeAtPosition(line, cs) ==
    IF line # <<>> /\ line[Len(line)] \in cs THEN <<wordStart(line, Len(line), cs), Len(line)>> ELSE <<>>

RECURSIVE fileItems(_, _)
fileItems(files, range) ==
    IF files = <<>> THEN <<>>
    ELSE LET value == <<"/">> \o RemoveFirst(Head(files), <<".","j","s">>)
         IN  <<IF range = <<>> THEN [label |-> value, kind |-> "Reference"]
                ELSE [label |-> value, kind |-> "Reference", range |-> range]>>
             \o fileItems(Tail(files), range)

\* getFileCompletions(directory, moduleName, range); moduleName is not used
getFileCompletions(directory, range) == Ok(fileItems(JsFiles(directory), range))

getWidgetCompletions == Ok(MapItems(WidgetDependencies, "Reference", "none"))

----------------------------------------------------------------------------
(* alloyAutoCompleteRules: the rules tried when no pattern of the provider *)
(* matches, in the order of Object.values                                  *)

\* /Alloy\.CFG\.([-a-zA-Z0-9-_/]*)[,]?$/
reCfg == Cat(<<Lit(<<"A","l","l","o","y",".","C","F","G",".">>), Grp(1, ClsStar(IdCh \cup {"/"})), Opt(Cls({","})), Eol>>)
\* /(L\(|(?:hinttext|title|text)id\s*[:=]\s*)["'](\w*["']?)$/
reI18n == Cat(<<Grp(1, Alt(<<Lit(<<"L","(">>),
                            Cat(<<Alt(<<Lit(<<"h","i","n","t","t","e","x","t">>), Lit(<<"t","i","t","l","e">>), Lit(<<"t","e","x","t">>)>>), Lit(<<"i","d">>),
                                  ClsStar(Space), Cls({":", "="}), ClsStar(Space)>>)>>)),
                Quote, Grp(2, Cat(<<ClsStar(WordCh), Opt(Quote)>>)), Eol>>)
\* /image\s*[:=]\s*["']([\w\s\\/\-_():.]*)['"]?$/
reImage == Cat(<<Lit(<<"i","m","a","g","e">>), ClsStar(Space), Cls({":", "="}), ClsStar(Space), Quote,
                 Grp(1, ClsStar(WordCh \cup Space \cup {"/", "-", "_", "(", ")", ":", "."})),
                 Opt(Quote), Eol>>)

alloyAutoCompleteRules ==
    << [regExp |-> reCfg, requireRange |-> FALSE,
        items |-> <<[label |-> <<"a","p","i","U","r","l">>, kind |-> "Value"]>>],
       [regExp |-> reI18n, requireRange |-> FALSE,
        items |-> <<[label |-> <<"g","r","e","e","t","i","n","g">>, kind |-> "Reference"]>>],
       [regExp |-> reImage, requireRange |-> TRUE,
        items |-> <<[label |-> <<"/","i","m","a","g","e","s","/","l","o","g","o",".","p","n","g">>, kind |-> "File"]>>] >>

RECURSIVE withRange(_, _)
withRange(items, range) ==
    IF items = <<>> \/ range = <<>> THEN items
    ELSE <<[label |-> Head(items).label, kind |-> Head(items).kind, range |-> range]>>
         \o withRange(Tail(items), range)

\* rule.getCompletions(range)
ruleCompletions(rule, linePrefix) ==
    IF rule.requireRange
    THEN Ok(withRange(rule.items, getWordRangeAtPosition(linePrefix, WordCh \cup {"/", ".", "$"})))
    ELSE Ok(rule.items)

TiItem == Ok(<<[label |-> <<"T","i">>, kind |-> "Class"]>>)

RECURSIVE tryRules(_, _)
\* the for loop over the rules: the first rule whose regExp matches answers
tryRules(rules, linePrefix) ==
    IF rules = <<>> THEN TiItem
    ELSE IF Test(Head(rules).regExp, linePrefix) THEN ruleCompletions(Head(rules), linePrefix)
    ELSE tryRules(Tail(rules), linePrefix)

----------------------------------------------------------------------------
(* ControllerCompletionItemProvider.provideCompletionItems, after          *)
(* this.completions is loaded                                              *)

provideCompletionItemsSwapped(linePrefix, completions, view) ==
    IF Test(reAlloyId, linePrefix) THEN getIdCompletions(view)
    ELSE IF Test(reTitaniumApi, linePrefix) THEN getTitaniumApiCompletions(linePrefix, completions)
    ELSE IF Test(reIdMember, linePrefix) THEN getMethodAndPropertyCompletions(linePrefix, completions, view)
    ELSE IF Test(reEventName, linePrefix) THEN getEventNameCompletions(linePrefix, completions, view)
    ELSE IF Test(reRequire, linePrefix)
         THEN getFileCompletions("lib", getWordRangeAtPosition(linePrefix, WordCh \cup {"/", ".", "$"}))
    ELSE IF Test(reCreateController, linePrefix) THEN getFileCompletions("controllers", <<>>)
    ELSE IF Test(reCreateModel, linePrefix) THEN getFileCompletions("models", <<>>)
    ELSE IF Test(reCreateWidget, linePrefix) THEN getWidgetCompletions
    ELSE IF Test(reAlloyApi, linePrefix) THEN getAlloyApiCompletions(linePrefix, completions)
    ELSE tryRules(alloyAutoCompleteRules, linePrefix)

provideCompletionItems(linePrefix, completions, view) ==
    IF Test(reAlloyId, linePrefix) THEN getIdCompletions(view)
    ELSE IF Test(reIdMember, linePrefix) THEN getMethodAndPropertyCompletions(linePrefix, completions, view)
    ELSE IF Test(reTitaniumApi, linePrefix) THEN getTitaniumApiCompletions(linePrefix, completions)
    ELSE IF Test(reEventName, linePrefix) THEN getEventNameCompletions(linePrefix, completions, view)
    ELSE IF Test(reRequire, linePrefix)
         THEN getFileCompletions("lib", getWordRangeAtPosition(linePrefix, WordCh \cup {"/", ".", "$"}))
    ELSE IF Test(reCreateController, linePrefix) THEN getFileCompletions("controllers", <<>>)
    ELSE IF Test(reCreateModel, linePrefix) THEN getFileCompletions("models", <<>>)
    ELSE IF Test(reCreateWidget, linePrefix) THEN getWidgetCompletions
    ELSE IF Test(reAlloyApi, linePrefix) THEN getAlloyApiCompletions(linePrefix, completions)
    ELSE tryRules(alloyAutoCompleteRules, linePrefix)

----------------------------------------------------------------------------
(* The line prefixes a completion request is made with                     *)

Ids      == {<<"t","i","t","l","e">>, <<"b">>, <<"A","c","t","i","o","n","V","i","e","w">>, <<"L","a","b","e","l">>}
Quotes   == {"'", "\""}
IdLines     == {<<"$",".">>, <<"$",".","t","i">>} \cup {<<"$",".">> \o id : id \in Ids}
MemberLines == {<<"$",".">> \o id \o <<".">> \o p : id \in Ids, p \in {<<>>, <<"t","e">>}}
EventLines  == {<<"$",".">> \o id \o <<".">> \o op \o <<"E","v","e","n","t","L","i","s","t","e","n","e","r","(">> \o <<q>> \o p :
                   id \in Ids, op \in {<<"a","d","d">>, <<"r","e","m","o","v","e">>}, q \in Quotes, p \in {<<>>, <<"c","l">>}}
ModelLines  == {<<"A","l","l","o","y",".">> \o f \o <<"(">> \o <<q>> \o p :
                   f \in {<<"c","r","e","a","t","e","M","o","d","e","l">>, <<"M","o","d","e","l","s",".","i","n","s","t","a","n","c","e">>, <<"c","r","e","a","t","e","C","o","l","l","e","c","t","i","o","n">>, <<"C","o","l","l","e","c","t","i","o","n","s",".","i","n","s","t","a","n","c","e">>},
                   q \in Quotes, p \in {<<>>, <<"u","s">>}}
OtherLines  == { <<>>, <<"f","o","o">>, <<"v","a","r"," ","x"," ","="," ">>,
                 <<"T","i",".">>, <<"T","i",".","U","I">>, <<"T","i",".","U","I",".">>, <<"T","i",".","U","I",".","L","a","b","e","l",".">>, <<"T","i",".","U","I",".","L","a","b","e","l",".","t","e">>, <<"T","i","t","a","n","i","u","m",".","U","I">>,
                 <<"r","e","q","u","i","r","e","(","'">>, <<"r","e","q","u","i","r","e","(","'","u","t">>, <<"r","e","q","u","i","r","e","(","\"","/","u","t">>,
                 <<"A","l","l","o","y",".","c","r","e","a","t","e","C","o","n","t","r","o","l","l","e","r","(","'">>, <<"A","l","l","o","y",".","c","r","e","a","t","e","C","o","n","t","r","o","l","l","e","r","(","'","i","n","'",")">>,
                 <<"A","l","l","o","y",".","C","o","n","t","r","o","l","l","e","r","s",".","i","n","s","t","a","n","c","e","(","\"","i","n">>,
                 <<"A","l","l","o","y",".","c","r","e","a","t","e","W","i","d","g","e","t","(","'">>, <<"A","l","l","o","y",".","W","i","d","g","e","t","s",".","i","n","s","t","a","n","c","e","(","'","c","o","m",".">>,
                 <<"A","l","l","o","y">>, <<"A","l","l","o","y",".">>, <<"A","l","l","o","y",".","G","l","o">>, <<"A","l","l","o","y",".","c","r">>, <<"A","l","l","o","y",".","C","F","G",".">>,
                 <<"L","(","'">>, <<"L","(","'","g","r">>, <<"i","m","a","g","e",":"," ","'">>, <<"i","m","a","g","e"," ","="," ","'","/","i","m">> }
LinePrefixes == IdLines \cup MemberLines \cup EventLines \cup ModelLines \cup OtherLines

----------------------------------------------------------------------------
(* The project-modified events of the extension                            *)

MaxRuns == 2
Runs == 1..MaxRuns

NoItem == [text |-> <<>>, shown |-> FALSE]

\* setStatusBar: nothing for a project that is not valid; the text names the
\* SDK of an application; the item is shown
setStatusBar(item, valid, kind, sdk) ==
    IF ~valid THEN item
    ELSE IF kind = "app" THEN [text |-> <<"device-mobile", sdk>>, shown |-> TRUE]
    ELSE IF kind = "module" THEN [text |-> <<"package">>, shown |-> TRUE]
    ELSE [item EXCEPT !.shown = TRUE]

NoRun == [pc |-> "none", sdkVersion |-> "", message |-> ""]
Finished == [pc |-> "done", sdkVersion |-> "", message |-> ""]

\* generateCompletions up to its first await: returns at once for a project
\* that is not valid or an SDK appc does not know, waits on the message of an
\* InteractionError for tiapp.xml without or with several sdk-version tags,
\* and else waits on the generation of the completions of sdkVersion
generateCompletions(valid, sdk, info) ==
    IF ~valid THEN Finished
    ELSE IF Len(sdk) = 0
    THEN [pc |-> "interaction", sdkVersion |-> "", message |-> "no sdk-version found"]
    ELSE IF Len(sdk) > 1
    THEN [pc |-> "interaction", sdkVersion |-> "", message |-> "multiple sdk-version tags found"]
    ELSE IF sdk[1] \notin info THEN Finished
    ELSE [pc |-> "generating", sdkVersion |-> sdk[1], message |-> ""]

InProgress(run) == run.pc \in {"interaction", "generating", "error", "installing"}

\* a listener that lets one run at a time go: an event delivered while a run
\* is in progress waits
onModifiedSerialized(allRuns, r, valid, sdk, info) ==
    IF \E q \in Runs : InProgress(allRuns[q])
    THEN [allRuns EXCEPT ![r] = [pc |-> "waiting", sdkVersion |-> "", message |-> ""]]
    ELSE [allRuns EXCEPT ![r] = generateCompletions(valid, sdk, info)]

\* the listener of project.onModified: Promise.all([setStatusBar(),
\* generateCompletions()]) calls both at once; the run of this event is added
\* to the runs in progress
onModified(allRuns, r, valid, sdk, info) ==
    [allRuns EXCEPT ![r] = generateCompletions(valid, sdk, info)]

SdkTags == {<<>>, <<"8.1.0.GA">>, <<"9.0.0.GA">>, <<"8.1.0.GA", "9.0.0.GA">>}
ProjectKinds == {"app", "module"}
ErrorCodes == {"ESDKNOTINSTALLED", "EOTHER"}

controllerAndStyleVars == <<controllerVars, styleVars>>

\* tiapp.xml is saved: the project is loaded again and the listener is called
ProjectModified ==
    /\ received < MaxRuns
    /\ \E valid \in BOOLEAN, kind \in ProjectKinds, sdk \in SdkTags :
        /\ projectValid' = valid
        /\ projectKind' = kind
        /\ tiappSdk' = sdk
        /\ projectStatusBarItem' = setStatusBar(projectStatusBarItem, valid, kind, sdk)
        /\ runs' = onModified(runs, received + 1, valid, sdk, sdkInfo)
    /\ received' = received + 1
    /\ UNCHANGED <<serviceVars, sdkInfo, generated, controllerAndStyleVars>>

\* handleInteractionError returns: the user chose "Open tiapp.xml" or closed
\* the message
InteractionDone ==
    /\ \E r \in Runs :
        /\ runs[r].pc = "interaction"
        /\ runs' = [runs EXCEPT ![r] = Finished]
    /\ UNCHANGED <<serviceVars, tiappSdk, projectValid, projectKind, sdkInfo, projectStatusBarItem,
                   received, generated, controllerAndStyleVars>>

\* both generations resolve; the information message is not waited for
GenerateResolve ==
    /\ \E r \in Runs :
        /\ runs[r].pc = "generating"
        /\ generated' = generated \cup {runs[r].sdkVersion}
        /\ runs' = [runs EXCEPT ![r] = Finished]
    /\ UNCHANGED <<serviceVars, tiappSdk, projectValid, projectKind, sdkInfo, projectStatusBarItem,
                   received, controllerAndStyleVars>>

\* a generation rejects: the error message is shown, with the choice Install
\* when the code is ESDKNOTINSTALLED
GenerateReject ==
    /\ \E r \in Runs, code \in ErrorCodes :
        /\ runs[r].pc = "generating"
        /\ runs' = [runs EXCEPT ![r] = [pc |-> "error", sdkVersion |-> runs[r].sdkVersion,
                                        message |-> code]]
    /\ UNCHANGED <<serviceVars, tiappSdk, projectValid, projectKind, sdkInfo, projectStatusBarItem,
                   received, generated, controllerAndStyleVars>>

\* the user closes the error message
ErrorDismiss ==
    /\ \E r \in Runs :
        /\ runs[r].pc = "error"
        /\ runs' = [runs EXCEPT ![r] = Finished]
    /\ UNCHANGED <<serviceVars, tiappSdk, projectValid, projectKind, sdkInfo, projectStatusBarItem,
                   received, generated, controllerAndStyleVars>>

\* the user chooses Install: the installation of sdkVersion starts
ErrorInstall ==
    /\ \E r \in Runs :
        /\ runs[r].pc = "error"
        /\ runs[r].message = "ESDKNOTINSTALLED"
        /\ runs' = [runs EXCEPT ![r] = [pc |-> "installing", sdkVersion |-> runs[r].sdkVersion,
                                        message |-> ""]]
    /\ UNCHANGED <<serviceVars, tiappSdk, projectValid, projectKind, sdkInfo, projectStatusBarItem,
                   received, generated, controllerAndStyleVars>>

\* installUpdate resolves: appc.getInfo is refreshed and generateCompletions
\* is called again, for the project as it is now
InstallResolve ==
    /\ \E r \in Runs :
        /\ runs[r].pc = "installing"
        /\ sdkInfo' = sdkInfo \cup {runs[r].sdkVersion}
        /\ runs' = [runs EXCEPT ![r] = generateCompletions(projectValid, tiappSdk, sdkInfo')]
    /\ UNCHANGED <<serviceVars, tiappSdk, projectValid, projectKind, projectStatusBarItem,
                   received, generated, controllerAndStyleVars>>

\* installUpdate rejects
InstallReject ==
    /\ \E r \in Runs :
        /\ runs[r].pc = "installing"
        /\ runs' = [runs EXCEPT ![r] = Finished]
    /\ UNCHANGED <<serviceVars, tiappSdk, projectValid, projectKind, sdkInfo, projectStatusBarItem,
                   received, generated, controllerAndStyleVars>>

NextModified ==
    \/ ProjectModified
    \/ InteractionDone
    \/ GenerateResolve
    \/ GenerateReject
    \/ ErrorDismiss
    \/ ErrorInstall
    \/ InstallResolve
    \/ InstallReject
----------------------------------------------------------------------------
(* getReferences of the definition provider helper                        *)

\* new RegExp(`name=["']${text}["']>(.*)?</`, 'g')
definitionRegExp(text) ==
    Cat(<<Lit(<<"n","a","m","e","=">>), Quote, Lit(text), Quote, Lit(<<">">>),
          Opt(Grp(1, ClsStar(AnyCh))), Lit(<<"<","/">>)>>)

\* the capture groups of a pattern
RECURSIVE GroupsOf(_)
GroupsOf(n) ==
    CASE n.t = "grp" -> {n.g} \cup GroupsOf(n.r)
      [] n.t \in {"cat", "alt"} -> UNION {GroupsOf(n.rs[a]) : a \in 1..Len(n.rs)}
      [] n.t = "star" -> GroupsOf(n.r)
      [] OTHER -> {}

\* the files of the workspace: the text of each, Missing for a path that
\* workspace.openTextDocument rejects
Missing == <<"missing">>
RefPaths == {"strings.xml", "values.xml", "late.xml", "other.xml", "empty.xml", "gone.xml"}
RefText(file) ==
    CASE file = "strings.xml" -> <<"<","a"," ","n","a","m","e","=","\"","k","\"",">","v","<","/","a",">">>
      [] file = "values.xml" -> <<"<","b","/",">","\n","<","a"," ","n","a","m","e","=","'","k","'",">","w","<","/","a",">">>
      [] file = "late.xml" -> <<"<","b","/",">","\n","<","b","/",">","\n","<","b","/",">","\n","<","a"," ","n","a","m","e","=","\"","k","\"",">","x","<","/","a",">">>
      [] file = "other.xml" -> <<"<","b","/",">">>
      [] file = "empty.xml" -> <<>>
      [] file = "gone.xml" -> Missing

MaxFiles == 3
RefFileLists == UNION {[1..n -> RefPaths] : n \in 1..MaxFiles}

\* regExp.exec(text) of a pattern object: with the g flag the search starts
\* at lastIndex and leaves lastIndex after the match, or at 0 when there is
\* none; without it the search starts at 0 and lastIndex is left alone
RegExpExec(re, global, lastIndex, text) ==
    LET m == ExecFrom(re, text, IF global THEN lastIndex + 1 ELSE 1)
    IN  [m |-> m,
         lastIndex |-> IF ~global THEN lastIndex ELSE IF m.ok THEN m.end - 1 ELSE 0]

\* document.positionAt(index), index 0-based
positionAt(text, index) ==
    LET start == LineStart(text, index + 1)
    IN  [line |-> Cardinality({k \in 1..index : text[k] = "\n"}),
         character |-> index + 1 - start]

\* callback(file, new Range(position.line, position.character, position.line, 0))
Definition(file, position) ==
    [file |-> file, start |-> <<position.line, position.character>>, end |-> <<position.line, 0>>]

\* one iteration of the loop over the files: what it adds to the definitions
\* and where it leaves regExp.lastIndex
searchFile(file, re, global, lastIndex) ==
    LET text == RefText(file)
    IN  IF text = Missing \/ Len(text) = 0
        THEN [definitions |-> <<>>, lastIndex |-> lastIndex]
        ELSE LET x == RegExpExec(re, global, lastIndex, text)
             IN  IF ~x.m.ok THEN [definitions |-> <<>>, lastIndex |-> x.lastIndex]
                 ELSE [definitions |->
                          [k \in 1..(1 + Cardinality(GroupsOf(re))) |->
                              Definition(file, positionAt(text, x.m.index - 1))],
                       lastIndex |-> x.lastIndex]

\* getReferences is called with a pattern object just created and with an
\* array of paths, or with one path, which is made an array
GetReferences ==
    /\ refPc = "idle"
    /\ \/ \E files \in RefFileLists : refFiles' = files
       \/ \E file \in RefPaths : refFiles' = <<file>>
    /\ \E g \in BOOLEAN : refGlobal' = g
    /\ refAt' = 0
    /\ refLastIndex' = 0
    /\ refDefinitions' = <<>>
    /\ refPc' = "searching"
    /\ UNCHANGED <<notReferences>>

\* the next file is opened and searched
SearchNext ==
    /\ refPc = "searching"
    /\ refAt < Len(refFiles)
    /\ LET found == searchFile(refFiles[refAt + 1], definitionRegExp(<<"k">>), refGlobal, refLastIndex)
       IN  /\ refDefinitions' = refDefinitions \o found.definitions
           /\ refLastIndex' = found.lastIndex
    /\ refAt' = refAt + 1
    /\ UNCHANGED <<refFiles, refGlobal, refPc, notReferences>>

\* the definitions are returned
ReturnReferences ==
    /\ refPc = "searching"
    /\ refAt = Len(refFiles)
    /\ refPc' = "done"
    /\ UNCHANGED <<refFiles, refGlobal, refAt, refLastIndex, refDefinitions,
                   notReferences>>

\* the caller has taken the definitions: nothing of the call is left
ReferencesTaken ==
    /\ refPc = "done"
    /\ refFiles' = <<>>
    /\ refGlobal' = FALSE
    /\ refAt' = 0
    /\ refLastIndex' = 0
    /\ refDefinitions' = <<>>
    /\ refPc' = "idle"
    /\ UNCHANGED notReferences

NextReferences ==
    \/ GetReferences
    \/ ReferencesTaken
    \/ SearchNext
    \/ ReturnReferences


----------------------------------------------------------------------------
(* StyleCompletionItemProvider, as its test suite describes it              *)

\* the colour names offered for a property whose name ends in color, quoted
ColorValues == <<<<"'","b","l","a","c","k","'">>, <<"'","b","l","u","e","'">>, <<"'","g","r","e","e","n","'">>, <<"'","m","a","g","e","n","t","a","'">>, <<"'","m","a","r","o","o","n","'">>, <<"'","r","e","d","'">>>>
LayoutValues == <<<<"'","v","e","r","t","i","c","a","l","'">>, <<"'","h","o","r","i","z","o","n","t","a","l","'">>, <<"'","c","o","m","p","o","s","i","t","e","'">>>>

\* /\s*\w+\s*:\s*\w*[(]?["'.]?\w*["'.]?[,]?$/ : a property value
reStyleValue == Cat(<<ClsStar(Space), ClsPlus(WordCh), ClsStar(Space), Lit(<<":">>), ClsStar(Space),
                      ClsStar(WordCh), Opt(Cls({"("})), Opt(Cls({"\"", "'", "."})), ClsStar(WordCh),
                      Opt(Cls({"\"", "'", "."})), Opt(Cls({","})), Eol>>)
\* /^\s*\w*$/ : a property name
reStyleName == Cat(<<Bol, ClsStar(Space), ClsStar(WordCh), Eol>>)
\* /^['"]\w*$/ : a tag
reStyleTag == Cat(<<Bol, Quote, ClsStar(WordCh), Eol>>)
\* /^\s*(\S+)\s*:/ : the property the value is of
reStyleProperty == Cat(<<Bol, ClsStar(Space), Grp(1, ClsPlus(NonSpCh \ {":"})), ClsStar(Space), Lit(<<":">>)>>)
\* /[Cc]olor$/
reColorName == Cat(<<Cls({"c", "C"}), Lit(<<"o","l","o","r">>), Eol>>)
\* /^\s*:/ : what follows a property name that is already written
reColonNext == Cat(<<Bol, ClsStar(Space), Lit(<<":">>)>>)

wordEnd(line, col, cs) == RunEnd(cs, line, col + 1) - 1

\* a word range that also takes the quotes of a value into the word
wordRangeAtQuoted(line, character) ==
    LET cs == WordCh \cup {"\"", "'"}
        s == wordStart(line, character, cs)
        e == wordEnd(line, character, cs)
    IN  IF s = e THEN <<>> ELSE <<s, e>>

\* document.getWordRangeAtPosition(position): the word the position is in or
\* touches, as offsets from the start of the line; <<>> when there is none
wordRangeAt(line, character) ==
    LET s == wordStart(line, character, WordCh)
        e == wordEnd(line, character, WordCh)
    IN  IF s = e THEN <<>> ELSE <<s, e>>

RECURSIVE filterValues(_, _, _)
\* one item of the kind per value that matches the prefix; all without prefix
filterValues(values, prefix, kind) ==
    IF values = <<>> THEN <<>>
    ELSE (IF prefix = <<>> \/ matches(Head(values), prefix)
          THEN <<[label |-> Head(values), kind |-> kind]>> ELSE <<>>)
         \o filterValues(Tail(values), prefix, kind)

\* the values of the property named before the colon
getPropertyValueCompletions(linePrefix, prefix, properties) ==
    LET m == Exec(reStyleProperty, linePrefix)
        name == Group(m, linePrefix, 1)
        values == IF Test(reColorName, name) THEN ColorValues
                  ELSE IF name = <<"l","a","y","o","u","t">> THEN LayoutValues
                  ELSE IF Has(properties, name) THEN Get(properties, name).values
                  ELSE <<>>
    IN  IF ~m.ok THEN <<>> ELSE filterValues(values, prefix, "Value")

RECURSIVE nameItems(_, _)
nameItems(properties, prefix) ==
    IF properties = <<>> THEN <<>>
    ELSE (IF prefix = <<>> \/ matches(Head(properties).name, prefix)
          THEN <<[label |-> Head(properties).name, kind |-> "Property",
                  insertText |-> Head(properties).name \o <<":"," ">>]>>
          ELSE <<>>)
         \o nameItems(Tail(properties), prefix)

\* property names offered wherever the line prefix is a name
getPropertyNameCompletionsAnywhere(line, range, prefix, properties) ==
    nameItems(properties, prefix)

\* the property names that match the prefix; none when the word at the cursor
\* is a name that its colon already follows
getPropertyNameCompletions(line, range, prefix, properties) ==
    IF range # <<>> /\ Test(reColonNext, SubSeq(line, range[2] + 1, Len(line))) THEN <<>>
    ELSE nameItems(properties, prefix)

RECURSIVE tagItems(_, _)
tagItems(tags, prefix) ==
    IF tags = <<>> THEN <<>>
    ELSE (IF prefix = <<>> \/ matches(Head(tags).name, prefix)
          THEN <<[label |-> Head(tags).name, kind |-> "Class", detail |-> Head(tags).apiName,
                  insertText |-> Head(tags).name \o <<"\"",":"," ","{","\n","\t","$","{","1","}","\t","\n","}">>]>>
          ELSE <<>>)
         \o tagItems(Tail(tags), prefix)

RECURSIVE styleRules(_, _)
\* the Alloy rules (i18n, image) are tried first for a value
styleRules(rules, linePrefix) ==
    IF rules = <<>> THEN [found |-> FALSE, items |-> <<>>]
    ELSE IF Test(Head(rules).regExp, linePrefix)
    THEN [found |-> TRUE, items |-> ruleCompletions(Head(rules), linePrefix).items]
    ELSE styleRules(Tail(rules), linePrefix)

\* StyleCompletionItemProvider.provideCompletionItems(document, position) for
\* the line of the position
styleProvideCompletionItems(line, character, properties, tags) ==
    LET linePrefix == SubSeq(line, 1, character)
        range == wordRangeAt(line, character)
        prefix == IF range = <<>> THEN <<>> ELSE SubSeq(line, range[1] + 1, range[2])
        rule == styleRules(alloyAutoCompleteRules, linePrefix)
    IN  IF Test(reStyleValue, linePrefix)
        THEN IF rule.found THEN rule.items
             ELSE getPropertyValueCompletions(linePrefix, prefix, properties)
        ELSE IF Test(reStyleName, linePrefix)
        THEN getPropertyNameCompletions(line, range, prefix, properties)
        ELSE IF Test(reStyleTag, linePrefix) THEN tagItems(tags, prefix)
        ELSE <<>>

\* the lines of the .tss document
ColorProperties == {<<"c","o","l","o","r">>, <<"b","a","c","k","g","r","o","u","n","d","C","o","l","o","r">>}
Partials == {<<"m","a">>, <<"b","l">>, <<"r","e">>}
ValueQuotes == {<<>>, <<"\"">>, <<"'">>}
ColorLine(property, quote, partial) == <<"\t">> \o property \o <<":"," ">> \o quote \o partial \o quote
ColorLines == {ColorLine(p, q, v) : p \in ColorProperties, q \in ValueQuotes, v \in Partials}
StyleLines == ColorLines \cup
    {<<"\t","s","e","p","a","r","a","t","o","r","S","t","y","l","e",":">>, <<"\t","s","e","p","a","r","a","t","o","r","S","t","y","l","e",":"," ","T","i">>, <<"\t","l","a","y","o","u","t",":"," ">>, <<"\t","c","o","l","o","r",":">>, <<"\t","s","c","r","o","l","l">>,
     <<"\t","i","m","a","g","e",":"," ","\"","l","o">>, <<"\"","L","a">>, <<"}">>}

\* a completion is asked at a position of a line of the document
StyleInvoke ==
    /\ stylePc \in {"idle", "done"}
    /\ \E l \in StyleLines : \E c \in 0..Len(l) :
        /\ styleLine' = l
        /\ styleChar' = c
    /\ stylePc' = IF styleCompletions = Unloaded THEN "loading" ELSE "matching"
    /\ styleResult' = <<>>
    /\ UNCHANGED <<serviceVars, tiappSdk, controllerVars, projectVars, styleCompletions>>

\* loadCompletions resolves
StyleLoad ==
    /\ stylePc = "loading"
    /\ styleCompletions' = Catalog(tiappSdk[1])
    /\ stylePc' = "matching"
    /\ UNCHANGED <<serviceVars, tiappSdk, controllerVars, projectVars, styleLine, styleChar, styleResult>>

\* the provider answers
StyleRespond ==
    /\ stylePc = "matching"
    /\ styleResult' = styleProvideCompletionItems(styleLine, styleChar,
                                                  styleCompletions.titanium.properties,
                                                  styleCompletions.alloy.tags)
    /\ stylePc' = "done"
    /\ UNCHANGED <<serviceVars, tiappSdk, controllerVars, projectVars, styleLine, styleChar, styleCompletions>>

NextStyle ==
    \/ StyleInvoke
    \/ StyleLoad
    \/ StyleRespond
----------------------------------------------------------------------------
(* installUpdates                                                          *)

\* updates.ProductNames, and the updates the update explorer can list: each
\* with its priority; a choice of the quick pick also has a label
AppcInstaller == "Appcelerator CLI (npm)"
Update(productName, latestVersion, priority, label) ==
    [productName |-> productName, latestVersion |-> latestVersion,
     priority |-> priority, label |-> label]
UpdatePool ==
    {Update("Node.js", "12.18.1", 1, ""),
     Update(AppcInstaller, "5.0.0", 10, ""),
     Update("Appcelerator CLI", "8.1.0", 20, "Appcelerator CLI: 8.1.0"),
     Update("Titanium SDK", "9.1.0.GA", 100, ""),
     Update("Titanium SDK", "9.0.3.GA", 100, "")}

MaxUpdates == 3
UpdateLists == UNION {[1..n -> UpdatePool] : n \in 0..MaxUpdates}

\* the array left in the order it was given
unsorted(list) == list

\* updateInfo.sort((curr, prev) => curr.priority - prev.priority): ascending
\* priority, updates of equal priority in the order they had
sortByPriority(list) ==
    LET rank(j) == Cardinality({h \in 1..Len(list) :
                        \/ list[h].priority < list[j].priority
                        \/ list[h].priority = list[j].priority /\ h <= j})
    IN  [n \in 1..Len(list) |-> list[CHOOSE j \in 1..Len(list) : rank(j) = n]]

\* (update as UpdateChoice).label || `${update.productName}: ${update.latestVersion}`
labelOf(update) ==
    IF update.label # "" THEN <<update.label>>
    ELSE <<update.productName, ": ", update.latestVersion>>

\* progress.report({ message: `<what> <label> (<counter>/<totalUpdates>)` })
Report(what, list, counter) ==
    [what |-> what, label |-> labelOf(list[counter]), counter |-> counter, total |-> Len(list)]
\* progress.report({ increment: 100 / totalUpdates })
Increment(list, counter) ==
    [what |-> "increment", label |-> <<>>, counter |-> counter, total |-> Len(list)]

\* what a rejected action was rejected with: an error without metadata, one
\* whose metadata has the errorCode EACCES, one with another code
UpdateErrors == {"plain", "EACCES", "ENOENT"}

\* the head of the loop at counter: the next update is reported and its
\* action called, or the loop is over
startNext(list, counter, progress, status, started) ==
    IF counter > Len(list)
    THEN [pc |-> "done", progress |-> progress, status |-> status, started |-> started]
    ELSE [pc |-> "installing",
          progress |-> Append(progress, Report("Installing", list, counter)),
          status |-> [status EXCEPT ![counter] = "running"],
          started |-> Append(started, counter)]

\* what is reported when the action at counter has resolved or rejected
reported(what, list, counter, progress, increment) ==
    Append(progress, Report(what, list, counter))
        \o (IF increment THEN <<Increment(list, counter)>> ELSE <<>>)

\* a rejection that nothing catches
rethrown(error, update) == "rejected"

\* the catch block after its reports, up to its await: an error without
\* metadata is shown and awaited ("message"), the EACCES of the installer is
\* shown with the sudo item and awaited ("sudo"), any other error with
\* metadata is dropped ("next")
catchError(error, update) ==
    IF error # "plain"
    THEN IF update.productName = AppcInstaller /\ error = "EACCES" THEN "sudo" ELSE "next"
    ELSE "message"

\* installUpdates(updateInfo, progress, incrementProgress) up to its first await
InstallUpdates ==
    /\ updPc = "idle"
    /\ \E updateInfo \in UpdateLists :
          LET list == sortByPriority(updateInfo)
              go == startNext(list, 1, <<>>, [n \in 1..Len(list) |-> "pending"], <<>>)
          IN  /\ updGiven' = updateInfo
              /\ updList' = list
              /\ updAt' = 1
              /\ updPc' = go.pc
              /\ updProgress' = go.progress
              /\ updStatus' = go.status
              /\ updStarted' = go.started
    /\ \E incrementProgress \in BOOLEAN : updIncrement' = incrementProgress
    /\ updTerminal' = <<>>
    /\ UNCHANGED notUpdates

\* counter++ and the head of the loop again
GoOn(progress, status) ==
    LET go == startNext(updList, updAt + 1, progress, status, updStarted)
    IN  /\ updAt' = updAt + 1
        /\ updPc' = go.pc
        /\ updProgress' = go.progress
        /\ updStatus' = go.status
        /\ updStarted' = go.started

\* await update.action(update.latestVersion) resolves
ActionResolves ==
    /\ updPc = "installing"
    /\ GoOn(reported("Installed", updList, updAt, updProgress, updIncrement),
            [updStatus EXCEPT ![updAt] = "installed"])
    /\ UNCHANGED <<updGiven, updList, updIncrement, updTerminal, notUpdates>>

\* await update.action(update.latestVersion) rejects
ActionRejects ==
    /\ updPc = "installing"
    /\ \E error \in UpdateErrors :
          LET progress == reported("Failed to install", updList, updAt, updProgress, updIncrement)
              status == [updStatus EXCEPT ![updAt] = "failed"]
              todo == catchError(error, updList[updAt])
          IN  IF todo = "next" THEN GoOn(progress, status)
              ELSE /\ updPc' = todo
                   /\ updProgress' = progress
                   /\ updStatus' = status
                   /\ UNCHANGED <<updAt, updStarted>>
    /\ UNCHANGED <<updGiven, updList, updIncrement, updTerminal, notUpdates>>

\* await vscode.window.showErrorMessage(`Failed to update to ${label}`) resolves
MessageClosed ==
    /\ updPc = "message"
    /\ GoOn(updProgress, updStatus)
    /\ UNCHANGED <<updGiven, updList, updIncrement, updTerminal, notUpdates>>

\* the message with the sudo item resolves: with the item, whose run gives
\* the command to the terminal, or with nothing
SudoAnswered ==
    /\ updPc = "sudo"
    /\ \E runWithSudo \in BOOLEAN :
          updTerminal' = IF runWithSudo THEN Append(updTerminal, <<"sudo", updList[updAt].productName>>)
                         ELSE updTerminal
    /\ GoOn(updProgress, updStatus)
    /\ UNCHANGED <<updGiven, updList, updIncrement, notUpdates>>

\* the call has returned, or has been rejected, and its caller has gone on:
\* nothing of it is left
UpdatesReturned ==
    /\ updPc \in {"done", "rejected"}
    /\ updGiven' = <<>>
    /\ updList' = <<>>
    /\ updIncrement' = TRUE
    /\ updAt' = 1
    /\ updPc' = "idle"
    /\ updProgress' = <<>>
    /\ updStatus' = <<>>
    /\ updStarted' = <<>>
    /\ updTerminal' = <<>>
    /\ UNCHANGED notUpdates

NextUpdates ==
    \/ InstallUpdates
    \/ UpdatesReturned
    \/ ActionResolves
    \/ ActionRejects
    \/ MessageClosed
    \/ SudoAnswered

----------------------------------------------------------------------------
(* init: the start of the extension                                        *)

\* no timestamp stored (globalState.get gives undefined), no duration (ms
\* gives undefined for a text it cannot read)
NoTime == -1
MaxNow == 3
\* Date.now()
Times == 1..MaxNow
\* what GlobalState.LastUpdateCheck can hold at the start
StoredTimes == {NoTime} \cup 0..(MaxNow - 1)
\* ms(config.general.updateFrequency)
Intervals == {NoTime} \cup 0..MaxNow

\* a check that is made every time
checkUpdatesAlways(now, stored, interval) == TRUE

\* globalState.get(GlobalState.LastUpdateCheck) || 0
lastUpdateCheckOr0(stored) == IF stored = NoTime THEN 0 ELSE stored

\* Date.now() - lastUpdateCheck > updateInterval, false for a comparison
\* with undefined
checkUpdates(now, stored, interval) ==
    interval # NoTime /\ now - lastUpdateCheckOr0(stored) > interval

\* activate: project.load(), GlobalState.Enabled is set for a Titanium
\* project, the status bar is set, and init() is called: for an enabled
\* extension the environment is validated
Activate ==
    /\ initPc = "idle"
    /\ \E valid \in BOOLEAN, kind \in ProjectKinds, sdk \in SdkTags :
          /\ projectValid' = valid
          /\ projectKind' = kind
          /\ tiappSdk' = sdk
          /\ projectStatusBarItem' =
                IF valid THEN setStatusBar(projectStatusBarItem, valid, kind, sdk)
                ELSE projectStatusBarItem
          /\ initPc' = IF valid THEN "validating" ELSE "off"
    /\ \E stored \in StoredTimes : lastUpdateCheck' = stored
    /\ \E interval \in Intervals : updateInterval' = interval
    /\ initRead' = NoTime
    /\ initNow' = 0
    /\ initCommands' = <<>>
    /\ initRun' = NoRun
    /\ UNCHANGED <<controllerVars, styleVars, sdkInfo, received, runs, generated,
                   referenceVars, updateVars, debugVars, checkVars>>

\* await environment.validateEnvironment(): with components missing the
\* error message with the Install choice is awaited
Validated ==
    /\ initPc = "validating"
    /\ \E missing \in BOOLEAN : initPc' = IF missing THEN "missing" ELSE "fetching"
    /\ UNCHANGED <<lastUpdateCheck, updateInterval, initRead, initNow, initCommands, initRun, notInit>>

\* the message is answered: with Install, whose run is awaited, or with
\* nothing, which ends the start
MissingAnswered ==
    /\ initPc = "missing"
    /\ \E installProducts \in BOOLEAN :
          initPc' = IF installProducts THEN "installing" ELSE "cancelled"
    /\ UNCHANGED <<lastUpdateCheck, updateInterval, initRead, initNow, initCommands, initRun, notInit>>

\* await installProducts.run() resolves, or rejects and ends the start
MissingInstalled ==
    /\ initPc = "installing"
    /\ \E ok \in BOOLEAN : initPc' = IF ok THEN "fetching" ELSE "cancelled"
    /\ UNCHANGED <<lastUpdateCheck, updateInterval, initRead, initNow, initCommands, initRun, notInit>>

\* the callback of appc.getInfo: with an error nothing more than the error
\* message; else generateCompletions for an application, RefreshExplorer,
\* and CheckForUpdates or RefreshUpdates
InfoFetched ==
    /\ initPc = "fetching"
    /\ \E error \in BOOLEAN, now \in Times :
          IF error
          THEN /\ initPc' = "failed"
               /\ UNCHANGED <<lastUpdateCheck, initRead, initNow, initCommands, initRun>>
          ELSE /\ initPc' = "done"
               /\ initRun' = IF projectKind = "app"
                             THEN generateCompletions(projectValid, tiappSdk, sdkInfo)
                             ELSE NoRun
               /\ initRead' = lastUpdateCheck
               /\ initNow' = now
               /\ lastUpdateCheck' =
                     IF checkUpdates(now, lastUpdateCheck, updateInterval)
                            \/ lastUpdateCheckOr0(lastUpdateCheck) = 0
                     THEN now ELSE lastUpdateCheck
               /\ initCommands' =
                     <<"RefreshExplorer",
                       IF checkUpdates(now, lastUpdateCheck, updateInterval)
                       THEN "CheckForUpdates" ELSE "RefreshUpdates">>
    /\ UNCHANGED <<updateInterval, notInit>>

\* the extension is deactivated; it can be activated again
Deactivate ==
    /\ initPc \in {"off", "cancelled", "failed", "done"}
    /\ initPc' = "idle"
    /\ UNCHANGED <<lastUpdateCheck, updateInterval, initRead, initNow, initCommands, initRun, notInit>>

NextInit ==
    \/ Activate
    \/ Validated
    \/ MissingAnswered
    \/ MissingInstalled
    \/ InfoFetched
    \/ Deactivate

----------------------------------------------------------------------------
(* The events relayed from debug sessions                                  *)

MaxBuilds == 2
Builds == 1..MaxBuilds
RequestIds == {1, 2}
Platforms == {"ios", "android"}

\* /Start (application|simulator) log/
reStartLog == Cat(<<Lit(<<"S","t","a","r","t"," ">>), Alt(<<Lit(<<"a","p","p","l","i","c","a","t","i","o","n">>), Lit(<<"s","i","m","u","l","a","t","o","r">>)>>), Lit(<<" ","l","o","g">>)>>)
\* /To connect Chrome DevTools/
reDevTools == Lit(<<"T","o"," ","c","o","n","n","e","c","t"," ","C","h","r","o","m","e"," ","D","e","v","T","o","o","l","s">>)

\* what the build writes, a chunk at a time
BuildOutput ==
    {<<"[","I","N","F","O","]"," ","S","t","a","r","t"," ","a","p","p","l","i","c","a","t","i","o","n"," ","l","o","g">>, <<"-","-"," ","S","t","a","r","t"," ","s","i","m","u","l","a","t","o","r"," ","l","o","g"," ","-","-">>,
     <<"T","o"," ","c","o","n","n","e","c","t"," ","C","h","r","o","m","e"," ","D","e","v","T","o","o","l","s",","," ","o","p","e","n">>, <<"[","I","N","F","O","]"," ","S","t","a","r","t"," ","l","o","g">>}

\* the chunks each pattern matches: /Start (application|simulator) log/.test(data),
\* /To connect Chrome DevTools/.test(data)
StartLogData == {data \in BuildOutput : Test(reStartLog, data)}
DevToolsData == {data \in BuildOutput : Test(reDevTools, data)}

\* what the output holds: a start-log line, the DevTools line
HasStartLog ==
    {data \in BuildOutput : Includes(data, <<"S","t","a","r","t"," ","a","p","p","l","i","c","a","t","i","o","n"," ","l","o","g">>)
                                \/ Includes(data, <<"S","t","a","r","t"," ","s","i","m","u","l","a","t","o","r"," ","l","o","g">>)}
HasDevTools == {data \in BuildOutput : Includes(data, <<"T","o"," ","c","o","n","n","e","c","t"," ","C","h","r","o","m","e"," ","D","e","v","T","o","o","l","s">>)}

\* no request in the slot; response is the object the listeners share
NoBuild == [pc |-> "none", id |-> 0, platform |-> "", isError |-> FALSE, code |-> 0,
            out |-> FALSE, err |-> FALSE]

\* a listener that answers whatever the platform is
respondsAnyPlatform(stream, platform, data) ==
    \/ stream = "stdout" /\ data \in StartLogData
    \/ stream = "stderr" /\ data \in DevToolsData

\* whether the data listener of the stream sends the response
responds(stream, platform, data) ==
    \/ stream = "stdout" /\ platform = "ios" /\ data \in StartLogData
    \/ stream = "stderr" /\ platform = "android" /\ data \in DevToolsData

\* event.session.customRequest('extensionResponse', response) of the build
\* in slot b
Response(b, build) == [build |-> b, id |-> build.id, isError |-> build.isError]

\* a custom event with a BUILD request: the build is started in the output
\* and the listeners are set; nothing when no build is started
BuildRequested(b) ==
    /\ dbgBuilds[b].pc = "none"
    /\ \A a \in 1..(b - 1) : dbgBuilds[a].pc # "none"
    /\ \E id \in RequestIds, platform \in Platforms, build \in BOOLEAN :
          dbgBuilds' = [dbgBuilds EXCEPT ![b] =
              IF build THEN [NoBuild EXCEPT !.pc = "building", !.id = id, !.platform = platform]
              ELSE NoBuild]
    /\ UNCHANGED <<dbgSent, notDebug>>

\* build.stdout or build.stderr gives data, which can be after the exit
BuildData(b) ==
    /\ dbgBuilds[b].pc \in {"building", "exited"}
    /\ \E stream \in {"stdout", "stderr"}, data \in BuildOutput :
          /\ dbgBuilds' = [dbgBuilds EXCEPT
                ![b].out = @ \/ (stream = "stdout" /\ data \in HasStartLog),
                ![b].err = @ \/ (stream = "stderr" /\ data \in HasDevTools)]
          /\ dbgSent' = IF responds(stream, dbgBuilds[b].platform, data)
                        THEN dbgSent \cup {Response(b, dbgBuilds[b])}
                        ELSE dbgSent
    /\ UNCHANGED notDebug

\* the build exits: with a code that is not 0 the result of the response
\* becomes the error and the response is sent
BuildExit(b) ==
    /\ dbgBuilds[b].pc = "building"
    /\ \E code \in {0, 1} :
          LET build == [dbgBuilds[b] EXCEPT !.pc = "exited", !.code = code,
                                            !.isError = @ \/ code # 0]
          IN  /\ dbgBuilds' = [dbgBuilds EXCEPT ![b] = build]
              /\ dbgSent' = IF code # 0 THEN dbgSent \cup {Response(b, build)} ELSE dbgSent
    /\ UNCHANGED notDebug

\* a custom event with an END request: ExtensionContainer.terminal.stop()
\* ends the builds, which exit without a code
EndRequested ==
    /\ \E b \in Builds : dbgBuilds[b].pc = "building"
    /\ dbgBuilds' = [b \in Builds |->
          IF dbgBuilds[b].pc = "building" THEN [dbgBuilds[b] EXCEPT !.pc = "exited"]
          ELSE dbgBuilds[b]]
    /\ UNCHANGED <<dbgSent, notDebug>>

NextDebug ==
    \/ \E b \in Builds : BuildRequested(b)
    \/ \E b \in Builds : BuildData(b)
    \/ \E b \in Builds : BuildExit(b)
    \/ EndRequested

----------------------------------------------------------------------------
(* The command CheckForUpdates                                             *)

NoPrompt == [message |-> <<>>, choices |-> <<>>]

\* showInformationMessage(message, { title: 'Install' }, { title: 'View' })
UpdatesPrompt(numberOfUpdates) ==
    [message |-> IF numberOfUpdates > 1
                 THEN <<"There are", numberOfUpdates, "updates available">>
                 ELSE <<"There is", numberOfUpdates, "update available">>,
     choices |-> <<"Install", "View">>]

\* a prompt whose every answer installs
commandOfAnyChoice(choice) == "SelectUpdates"

\* the command the choice of the prompt leads to ("": none)
commandOf(choice) ==
    IF choice = "" THEN ""
    ELSE IF choice = "Install" THEN "SelectUpdates"
    ELSE IF choice = "View" THEN "ShowUpdatesView"
    ELSE ""

\* the command is executed: RefreshUpdates is executed and awaited
CheckForUpdates ==
    /\ chkPc = "idle"
    /\ chkPc' = "refreshing"
    /\ chkBefore' = hasUpdates
    /\ chkCount' = 0
    /\ chkPrompt' = NoPrompt
    /\ chkChoice' = ""
    /\ chkCommands' = <<"RefreshUpdates">>
    /\ UNCHANGED <<explorerUpdates, hasUpdates, notCheck>>

\* RefreshUpdates: await updateExplorer.refresh() sets the list of the
\* explorer; then the command goes on: nothing for an empty list, else
\* HasUpdates is set and the prompt shown and awaited
Refreshed ==
    /\ chkPc = "refreshing"
    /\ \E updates \in UpdateLists :
          /\ explorerUpdates' = updates
          /\ chkCount' = Len(updates)
          /\ IF Len(updates) = 0
             THEN /\ chkPc' = "done"
                  /\ UNCHANGED <<hasUpdates, chkPrompt, chkCommands>>
             ELSE /\ chkPc' = "prompt"
                  /\ hasUpdates' = "true"
                  /\ chkPrompt' = UpdatesPrompt(Len(updates))
                  /\ chkCommands' = Append(chkCommands, "setContext")
    /\ UNCHANGED <<chkBefore, chkChoice, notCheck>>

\* updateExplorer.refresh() rejects: so does the command
RefreshFailed ==
    /\ chkPc = "refreshing"
    /\ chkPc' = "rejected"
    /\ UNCHANGED <<explorerUpdates, hasUpdates, chkBefore, chkCount, chkPrompt, chkChoice,
                   chkCommands, notCheck>>

\* the prompt is answered with one of its choices or dismissed:
\* SelectUpdates is executed, or ShowUpdatesView executed and awaited
PromptAnswered ==
    /\ chkPc = "prompt"
    /\ \E choice \in {"", "Install", "View"} :
          /\ chkChoice' = choice
          /\ chkCommands' = IF commandOf(choice) = "" THEN chkCommands
                            ELSE Append(chkCommands, commandOf(choice))
          /\ chkPc' = IF commandOf(choice) = "ShowUpdatesView" THEN "viewing" ELSE "done"
    /\ UNCHANGED <<explorerUpdates, hasUpdates, chkBefore, chkCount, chkPrompt, notCheck>>

\* await executeCommand(Commands.ShowUpdatesView) resolves
ViewShown ==
    /\ chkPc = "viewing"
    /\ chkPc' = "done"
    /\ UNCHANGED <<explorerUpdates, hasUpdates, chkBefore, chkCount, chkPrompt, chkChoice,
                   chkCommands, notCheck>>

\* the command is over; the updates are installed by InstallAllUpdates or
\* not, which sets HasUpdates to false
CheckReturned ==
    /\ chkPc \in {"done", "rejected"}
    /\ chkPc' = "idle"
    /\ \E installed \in BOOLEAN : hasUpdates' = IF installed THEN "false" ELSE hasUpdates
    /\ UNCHANGED <<explorerUpdates, chkBefore, chkCount, chkPrompt, chkChoice, chkCommands, notCheck>>

NextCheck ==
    \/ CheckForUpdates
    \/ Refreshed
    \/ RefreshFailed
    \/ PromptAnswered
    \/ ViewShown
    \/ CheckReturned


----------------------------------------------------------------------------
(* The completion requests of the controller provider                      *)

NoRequest == [line |-> <<>>, view |-> NoView, result |-> Ok(<<>>), any |-> FALSE]

\* the state after construction, but for the SDKs appc knows
InitProject ==
    /\ relatedView = ViewTitle
    /\ tiappSdk = <<"8.1.0.GA">>
    /\ thisCompletions = Unloaded
    /\ pc = "idle"
    /\ requestPrefix = <<>>
    /\ result = Ok(<<>>)
    /\ readView = NoView
    /\ before = NoRequest
    /\ projectValid = TRUE
    /\ projectKind = "app"
    /\ projectStatusBarItem = setStatusBar(NoItem, TRUE, "app", <<"8.1.0.GA">>)
    /\ received = 0
    /\ runs = [r \in Runs |-> NoRun]
    /\ generated = {}
    /\ styleLine = <<>>
    /\ styleChar = 0
    /\ stylePc = "idle"
    /\ styleCompletions = Unloaded
    /\ styleResult = <<>>
    /\ refFiles = <<>>
    /\ refGlobal = FALSE
    /\ refAt = 0
    /\ refLastIndex = 0
    /\ refDefinitions = <<>>
    /\ refPc = "idle"
    /\ updGiven = <<>>
    /\ updList = <<>>
    /\ updIncrement = TRUE
    /\ updAt = 1
    /\ updPc = "idle"
    /\ updProgress = <<>>
    /\ updStatus = <<>>
    /\ updStarted = <<>>
    /\ updTerminal = <<>>
    /\ initPc = "idle"
    /\ lastUpdateCheck = NoTime
    /\ updateInterval = 1
    /\ initRead = NoTime
    /\ initNow = 0
    /\ initCommands = <<>>
    /\ initRun = NoRun
    /\ dbgBuilds = [b \in Builds |-> NoBuild]
    /\ dbgSent = {}
    /\ explorerUpdates = <<>>
    /\ hasUpdates = "unset"
    /\ chkPc = "idle"
    /\ chkBefore = "unset"
    /\ chkCount = 0
    /\ chkPrompt = NoPrompt
    /\ chkChoice = ""
    /\ chkCommands = <<>>

\* appc.getInfo has found the SDK of tiapp.xml installed
Init ==
    /\ InitProject
    /\ sdkInfo = {"8.1.0.GA"}

\* appc.getInfo has found both SDKs installed
InitCatalog ==
    /\ InitProject
    /\ sdkInfo = {"8.1.0.GA", "9.0.0.GA"}

\* the user saves another text of the related view, or removes the file
EditView ==
    /\ \E v \in Views : v # relatedView /\ relatedView' = v
    /\ UNCHANGED <<serviceVars, tiappSdk, thisCompletions, pc, requestPrefix, result, readView, before, projectVars, styleVars>>

\* provideCompletionItems is called: the line prefix is read; the catalog is
\* loaded first when this.completions is not set.  With track, the request
\* answered last is remembered in `before`.
Invoke(lines, track) ==
    /\ pc \in {"idle", "done"}
    /\ \E l \in lines : requestPrefix' = l
    /\ pc' = IF thisCompletions = Unloaded THEN "loading" ELSE "matching"
    /\ result' = Ok(<<>>)
    /\ readView' = NoView
    /\ before' = IF track /\ pc = "done"
                 THEN [line |-> requestPrefix, view |-> readView, result |-> result, any |-> TRUE]
                 ELSE before
    /\ UNCHANGED <<serviceVars, relatedView, tiappSdk, thisCompletions, projectVars, styleVars>>

\* loadCompletions resolves with the catalog of the first sdk-version
LoadCompletions ==
    /\ pc = "loading"
    /\ Len(tiappSdk) > 0
    /\ thisCompletions' = Catalog(tiappSdk[1])
    /\ pc' = "matching"
    /\ UNCHANGED <<serviceVars, relatedView, tiappSdk, requestPrefix, result, readView, before, projectVars, styleVars>>

\* the patterns are tested and the handler of the first match answers; the
\* handler reads the related view as it is now
Respond ==
    /\ pc = "matching"
    /\ result' = provideCompletionItems(requestPrefix, thisCompletions, relatedView)
    /\ readView' = relatedView
    /\ pc' = "done"
    /\ UNCHANGED <<serviceVars, relatedView, tiappSdk, thisCompletions, requestPrefix, before, projectVars, styleVars>>

\* loadCompletions rejects for a tiapp.xml without sdk-version: the call
\* rejects and this.completions stays unset
LoadRejects ==
    /\ pc = "loading"
    /\ Len(tiappSdk) = 0
    /\ result' = Raised
    /\ pc' = "done"
    /\ UNCHANGED <<serviceVars, relatedView, tiappSdk, thisCompletions, requestPrefix, readView, before, projectVars, styleVars>>

Next ==
    \/ EditView
    \/ Invoke(LinePrefixes, FALSE)
    \/ LoadCompletions
    \/ Respond

Spec == Init /\ [][Next]_vars

\* the requests that search the related view, each remembered for the next
CrossFileLines == {<<"$",".">>, <<"$",".","t","i","t","l","e",".">>, <<"$",".","b",".">>, <<"$",".","L","a","b","e","l",".","a","d","d","E","v","e","n","t","L","i","s","t","e","n","e","r","(","'">>}

NextUncached ==
    \/ EditView
    \/ Invoke(CrossFileLines, TRUE)
    \/ LoadCompletions
    \/ Respond

SpecUncached == Init /\ [][NextUncached]_vars

SpecModified == Init /\ [][NextModified]_vars

SpecStyle == Init /\ [][NextStyle]_vars

SpecReferences == Init /\ [][NextReferences]_vars

SpecUpdates == Init /\ [][NextUpdates]_vars

SpecInit == Init /\ [][NextInit]_vars

SpecDebug == Init /\ [][NextDebug]_vars

SpecCheck == Init /\ [][NextCheck]_vars

\* the requests whose answer is read from the catalog of the SDK
CatalogLines == {<<"T","i",".","U","I",".","L","a","b","e","l",".">>, <<"$",".","t","i","t","l","e",".">>}

\* tiapp.xml is saved and the completions are generated while the provider
\* is asked for completions
NextCatalog ==
    \/ ProjectModified
    \/ InteractionDone
    \/ GenerateResolve
    \/ Invoke(CatalogLines, FALSE)
    \/ LoadCompletions
    \/ LoadRejects
    \/ Respond

SpecCatalog == InitCatalog /\ [][NextCatalog]_vars

----------------------------------------------------------------------------
(* The order of the patterns, as the claims about it state it              *)

PatternOrder ==
    <<reAlloyId, reIdMember, reTitaniumApi, reEventName, reRequire,
      reCreateController, reCreateModel, reCreateWidget, reAlloyApi>>
    \o [k \in 1..Len(alloyAutoCompleteRules) |-> alloyAutoCompleteRules[k].regExp]

\* the index of the first pattern of PatternOrder that matches, 0 when none does
FirstMatching(line) ==
    LET hits == {k \in 1..Len(PatternOrder) : Test(PatternOrder[k], line)}
    IN  IF hits = {} THEN 0 ELSE CHOOSE k \in hits : \A h \in hits : k <= h

\* the answer of the handler that belongs to pattern k
HandlerAnswer(k, line, cat, view) ==
    CASE k = 0 -> Ok(<<[label |-> <<"T","i">>, kind |-> "Class"]>>)
      [] k = 1 -> getIdCompletions(view)
      [] k = 2 -> getMethodAndPropertyCompletions(line, cat, view)
      [] k = 3 -> getTitaniumApiCompletions(line, cat)
      [] k = 4 -> getEventNameCompletions(line, cat, view)
      [] k = 5 -> getFileCompletions("lib", getWordRangeAtPosition(line, WordCh \cup {"/", ".", "$"}))
      [] k = 6 -> getFileCompletions("controllers", <<>>)
      [] k = 7 -> getFileCompletions("models", <<>>)
      [] k = 8 -> getWidgetCompletions
      [] k = 9 -> getAlloyApiCompletions(line, cat)
      [] OTHER -> ruleCompletions(alloyAutoCompleteRules[k - 9], line)

\* C1: a finished request answers what the handler of the first matching
\* pattern answers for the view it read, and the single item 'Ti' when no
\* pattern matches
C1_FirstMatchAnswers ==
    pc = "done" =>
        result = HandlerAnswer(FirstMatching(requestPrefix), requestPrefix, thisCompletions, readView)

\* a request whose line matches the member pattern and the later Titanium
\* pattern, answered by the member handler with something the Titanium
\* handler does not answer
C1_Witness ==
    /\ pc = "done"
    /\ FirstMatching(requestPrefix) = 2
    /\ Test(reTitaniumApi, requestPrefix)
    /\ result.items # <<>>
    /\ result # getTitaniumApiCompletions(requestPrefix, thisCompletions)

----------------------------------------------------------------------------
(* What the view holds, read from its elements and not from its text       *)

RECURSIVE attrValues(_, _)
\* the values of the attributes called name, in order
attrValues(attrs, name) ==
    IF attrs = <<>> THEN <<>>
    ELSE (IF Head(attrs).name = name THEN <<Head(attrs).value>> ELSE <<>>)
         \o attrValues(Tail(attrs), name)
RECURSIVE IdAttrValues(_)
\* the values of the id attributes of the view, in document order
IdAttrValues(view) ==
    IF view = <<>> THEN <<>>
    ELSE attrValues(Head(view).attrs, <<"i","d">>) \o IdAttrValues(Tail(view))
RECURSIVE Distinct(_)
\* the first occurrence of every value, in order
Distinct(values) ==
    IF values = <<>> THEN <<>>
    ELSE LET init == SubSeq(values, 1, Len(values) - 1)
             last == values[Len(values)]
         IN  IF \E k \in 1..Len(init) : init[k] = last THEN Distinct(init)
             ELSE Append(Distinct(init), last)
\* whether an element of the view carries the id
CarriesId(e, id) == \E k \in 1..Len(e.attrs) : e.attrs[k].name = <<"i","d">> /\ e.attrs[k].value = id
HasId(view, id) == \E k \in 1..Len(view) : CarriesId(view[k], id)
\* the tag name of the first element that carries the id
TagOfId(view, id) ==
    view[CHOOSE k \in 1..Len(view) : CarriesId(view[k], id) /\ \A j \in 1..(k - 1) : ~CarriesId(view[j], id)].tag
\* whether the catalog knows the Titanium type of the tag that carries the id
TypeKnown(view, id, cat) ==
    /\ HasId(view, id)
    /\ Has(cat.alloy.tags, TagOfId(view, id))
    /\ Has(cat.titanium.types, Get(cat.alloy.tags, TagOfId(view, id)).apiName)
TypeOfId(view, id, cat) == Get(cat.titanium.types, Get(cat.alloy.tags, TagOfId(view, id)).apiName)

RECURSIVE idItemsOf(_, _)
idItemsOf(ids, fileName) ==
    IF ids = <<>> THEN <<>>
    ELSE <<[label |-> Head(ids), kind |-> "Reference", detail |-> fileName]>>
         \o idItemsOf(Tail(ids), fileName)

----------------------------------------------------------------------------
(* C2: cross-file resolution is uncached                                   *)

\* what a search of the text the view has now answers for the three
\* handlers that read the related view
SearchOfText(line, cat, view) ==
    LET k    == FirstMatching(line)
        file == getTargetPath(view)
        text == Render(view)
    IN  CASE k = 1 -> IF file = <<>> THEN Ok(<<>>) ELSE Ok(idItems(file, text))
          [] k = 2 -> LET m == Exec(reMemberId, line)
                      IN  IF ~m.ok THEN Raised
                          ELSE IF file = <<>> THEN Ok(<<>>)
                          ELSE tagMembers(closestTag(text, Group(m, line, 1)), cat)
          [] k = 4 -> LET m == Exec(reEventName, line)
                      IN  IF file = <<>> THEN Ok(<<>>)
                          ELSE tagEvents(closestTag(text, Group(m, line, 1)), Group(m, line, 1), cat)

\* C2: a request of getIdCompletions, getMethodAndPropertyCompletions or
\* getEventNameCompletions answers the search of the text the related view
\* has when the request reads it, whatever an earlier request read or answered
C2_SearchesCurrentText ==
    (pc = "done" /\ FirstMatching(requestPrefix) \in {1, 2, 4})
        => result = SearchOfText(requestPrefix, thisCompletions, readView)

\* the same line is requested twice, the view changed in between, and the
\* second answer differs from the first
C2_Witness ==
    /\ pc = "done"
    /\ before.any
    /\ before.line = requestPrefix
    /\ before.view # NoView /\ readView # NoView /\ before.view # readView
    /\ before.result # result
    /\ result.items # <<>>

----------------------------------------------------------------------------
(* C6 .. C10: what the handlers answer                                     *)

\* C6: a line prefix that ends with $.<id>.addEventListener(' or
\* $.<id>.removeEventListener(' and a partial event name is answered with
\* the result of getEventNameCompletions
C6_EventLinesAnswered ==
    (pc = "done" /\ Test(reEventName, requestPrefix))
        => result = getEventNameCompletions(requestPrefix, thisCompletions, readView)

\* C7: a line prefix that ends with Alloy.createModel(', Alloy.Models.instance(',
\* Alloy.createCollection(' or Alloy.Collections.instance(' and a partial name
\* is answered with the file completions of the models directory
C7_ModelLinesAnswered ==
    (pc = "done" /\ Test(reCreateModel, requestPrefix))
        => result = getFileCompletions("models", <<>>)

\* $.<id>.<partial member name> at the end of the line
reMemberLine == Cat(<<Lit(<<"$",".">>), Grp(1, ClsStar(IdCh)), Lit(<<".">>), Grp(2, ClsStar(IdCh)), Eol>>)
MemberLineId(line) == Group(Exec(reMemberLine, line), line, 1)

\* C8: a line prefix that ends with $.<id>. and a partial member name is
\* answered without raising, with the functions and then the properties of
\* the Titanium type of the tag that carries the id in the related view, and
\* with the empty list when the view, the id, the tag or the type is unknown
C8_MembersOfTheTag ==
    (pc = "done" /\ Test(reMemberLine, requestPrefix))
        => /\ ~result.raised
           /\ result.items =
                 IF TypeKnown(readView, MemberLineId(requestPrefix), thisCompletions)
                 THEN LET type == TypeOfId(readView, MemberLineId(requestPrefix), thisCompletions)
                      IN  MapItems(type.functions, "Method", "call")
                          \o MapItems(type.properties, "Property", "assign")
                 ELSE <<>>

EventLineId(line) == Group(Exec(reEventName, line), line, 1)

\* C9: getEventNameCompletions answers the events of the Titanium type of
\* the tag of the element whose id is the id of the line, each with the api
\* name of the type as detail, and the empty list, without raising, when the
\* id, the tag or the type is unknown
C9_EventsOfTheTag ==
    (pc = "done" /\ Test(reEventName, requestPrefix))
        => getEventNameCompletions(requestPrefix, thisCompletions, readView) =
              IF TypeKnown(readView, EventLineId(requestPrefix), thisCompletions)
              THEN LET type == TypeOfId(readView, EventLineId(requestPrefix), thisCompletions)
                   IN  Ok(eventItems(type.events, type.name))
              ELSE Ok(<<>>)

\* C10: getIdCompletions answers one item per distinct id attribute value of
\* the related view, in the order of first occurrence, and the empty list
\* when there is no related view
C10_OneItemPerId ==
    (pc = "done" /\ FirstMatching(requestPrefix) = 1)
        => result = Ok(idItemsOf(Distinct(IdAttrValues(readView)), AfterLast(RelatedPath, "/")))

----------------------------------------------------------------------------
(* C3: project-modified events are not coordinated                          *)

Started == {"interaction", "generating", "error", "installing", "done"}

\* C3: every project-modified event starts its own setStatusBar and
\* generateCompletions run in the step that delivers it, whatever the runs of
\* earlier events are doing: the status bar shows the project as it is now, the
\* run of the event has started (it generates when tiapp.xml names one SDK that
\* is known) and the earlier runs are left as they are
C3_EachEventStartsItsRun ==
    [][received' = received + 1 =>
        /\ runs'[received'].pc \in Started
        /\ (projectValid' /\ Len(tiappSdk') = 1 /\ tiappSdk'[1] \in sdkInfo
              => /\ runs'[received'].pc = "generating"
                 /\ runs'[received'].sdkVersion = tiappSdk'[1])
        /\ (projectValid' /\ projectKind' = "app"
              => projectStatusBarItem' = [text |-> <<"device-mobile", tiappSdk'>>, shown |-> TRUE])
        /\ \A q \in Runs : q # received' => runs'[q] = runs[q]]_vars

\* C3 witness: two generations are in progress at the same time, the second
\* started by an event delivered while the first was waiting
C3_Witness ==
    /\ received = 2
    /\ runs[1].pc = "generating"
    /\ runs[2].pc = "generating"

----------------------------------------------------------------------------
(* C4, C5: the values the style provider suggests                          *)

\* a line `<tab><name>:...`: the index of its first colon, 0 when it has none
ColonOf(line) ==
    IF \E k \in 1..Len(line) : line[k] = ":"
    THEN CHOOSE k \in 1..Len(line) : line[k] = ":" /\ \A j \in 1..(k - 1) : line[j] # ":"
    ELSE 0
NameBeforeColon(line) == SubSeq(line, 2, ColonOf(line) - 1)
IsPropertyLine(line) ==
    /\ ColonOf(line) > 2
    /\ line[1] = "\t"
    /\ Has(TitaniumProperties, NameBeforeColon(line))

ValueItems(values) == [k \in 1..Len(values) |-> [label |-> values[k], kind |-> "Value"]]

\* what the catalog and the provider's lists give for the property
ValuesOf(name) ==
    IF name \in ColorProperties THEN ColorValues
    ELSE IF name = <<"l","a","y","o","u","t">> THEN LayoutValues
    ELSE Get(TitaniumProperties, name).values

\* C4: with the cursor immediately after the colon of a style property the
\* provider returns the value suggestions of the property (for separatorStyle
\* the two TABLE_VIEW_SEPARATOR_STYLE constants, each of kind Value); with the
\* cursor inside the property name, before the colon, it returns nothing
C4_ValuesAtColonNoneInName ==
    (stylePc = "done" /\ IsPropertyLine(styleLine)) =>
        /\ styleChar = ColonOf(styleLine)
             => /\ styleResult = ValueItems(ValuesOf(NameBeforeColon(styleLine)))
                /\ NameBeforeColon(styleLine) = <<"s","e","p","a","r","a","t","o","r","S","t","y","l","e">>
                     => styleResult =
                          <<[label |-> <<"T","i",".","U","I",".","T","A","B","L","E","_","V","I","E","W","_","S","E","P","A","R","A","T","O","R","_","S","T","Y","L","E","_","N","O","N","E">>, kind |-> "Value"],
                            [label |-> <<"T","i",".","U","I",".","T","A","B","L","E","_","V","I","E","W","_","S","E","P","A","R","A","T","O","R","_","S","T","Y","L","E","_","S","I","N","G","L","E","_","L","I","N","E">>, kind |-> "Value"]>>
        /\ (1 < styleChar /\ styleChar < ColonOf(styleLine)) => styleResult = <<>>

\* C4 witness: a request right after the colon of `separatorStyle:` has been
\* answered, with two suggestions
C4_Witness ==
    /\ stylePc = "done"
    /\ styleLine = <<"\t","s","e","p","a","r","a","t","o","r","S","t","y","l","e",":">>
    /\ styleChar = 16
    /\ Len(styleResult) = 2

\* the offset at which the partial value of a colour line starts
PartialStart(property, quote) == 1 + Len(property) + 2 + Len(quote)
InPartial(property, quote, partial) ==
    /\ styleLine = ColorLine(property, quote, partial)
    /\ PartialStart(property, quote) <= styleChar
    /\ styleChar <= PartialStart(property, quote) + Len(partial)

\* C5: for a colour property the suggestions for a partial value are the same
\* whether the partial is typed inside quotes or without them, and for the
\* partial `ma` they are exactly 'magenta' and 'maroon', in this order, each
\* of kind Value
C5_QuotedAsUnquoted ==
    \A p \in ColorProperties, q \in ValueQuotes, v \in Partials :
        (stylePc = "done" /\ InPartial(p, q, v)) =>
            /\ styleResult = styleProvideCompletionItems(ColorLine(p, <<>>, v), styleChar - Len(q),
                                                         TitaniumProperties, AlloyTags)
            /\ v = <<"m","a">> => styleResult = <<[label |-> <<"'","m","a","g","e","n","t","a","'">>, kind |-> "Value"],
                                             [label |-> <<"'","m","a","r","o","o","n","'">>, kind |-> "Value"]>>

\* C5 witness: the request inside the quoted partial of `color: "ma"` has been
\* answered, with two suggestions
C5_Witness ==
    /\ stylePc = "done"
    /\ styleLine = <<"\t","c","o","l","o","r",":"," ","\"","m","a","\"">>
    /\ styleChar = 10
    /\ Len(styleResult) = 2

----------------------------------------------------------------------------
(* C11: each file is searched independently                                *)

\* what getReferences returns for the file alone
Alone(file, global) == searchFile(file, definitionRegExp(<<"k">>), global, 0).definitions

\* the definitions of the files one after the other, each searched alone
RECURSIVE EachAlone(_, _)
EachAlone(files, global) ==
    IF files = <<>> THEN <<>>
    ELSE Alone(Head(files), global) \o EachAlone(Tail(files), global)

\* C11: when getReferences returns, the definitions are those of each file
\* searched alone, in the order of the files, whatever the other files
\* are and whether or not the pattern has the g flag
C11_EachFileAlone ==
    refPc = "done" => refDefinitions = EachAlone(refFiles, refGlobal)

----------------------------------------------------------------------------
(* C12, C16: installUpdates                                                *)

\* the action of the update at position i of the list is over
Over(i) == updStatus[i] \in {"installed", "failed"}
\* how many times the action of the update at position i was called
Calls(i) == Cardinality({k \in 1..Len(updStarted) : updStarted[k] = i})
\* list is the updates of given in another order
SameUpdates(list, given) ==
    /\ Len(list) = Len(given)
    /\ \A u \in UpdatePool :
          Cardinality({k \in 1..Len(list) : list[k] = u})
              = Cardinality({k \in 1..Len(given) : given[k] = u})

\* C12: the updates given are installed one at a time in non-decreasing
\* order of priority: at most one action runs, and when the action of an
\* update has been called the action of every update of lower priority is
\* over, installed or failed
C12_LowerPriorityFirst ==
    /\ SameUpdates(updList, updGiven)
    /\ Cardinality({i \in 1..Len(updList) : updStatus[i] = "running"}) <= 1
    /\ \A i, j \in 1..Len(updList) :
          updStatus[i] # "pending" /\ updList[j].priority < updList[i].priority => Over(j)
    /\ \A a, b \in 1..Len(updStarted) :
          a < b => updList[updStarted[a]].priority <= updList[updStarted[b]].priority

\* C12 witness: three updates given with the highest priority number first
\* and the lowest last; the first two actions are over and the third runs
C12_Witness ==
    /\ Len(updGiven) = 3
    /\ updGiven[1].priority > updGiven[2].priority
    /\ updGiven[2].priority > updGiven[3].priority
    /\ updPc = "installing"
    /\ updAt = 3
    /\ updStatus = <<"failed", "installed", "running">>

\* the report that the update at position i failed
FailureReported(i) ==
    \E k \in 1..Len(updProgress) :
        updProgress[k] = Report("Failed to install", updList, i)

\* C16: installUpdates calls the action of every update of its list exactly
\* once: no action is called twice, a failed action is reported as failed
\* in the progress, installUpdates is never rejected, and when it returns
\* every action has been called and is over
C16_EveryUpdateOnce ==
    /\ updPc # "rejected"
    /\ Len(updList) = Len(updGiven)
    /\ \A i \in 1..Len(updList) :
          /\ Calls(i) <= 1
          /\ updStatus[i] = "failed" => FailureReported(i)
          /\ updPc = "done" => Calls(i) = 1 /\ Over(i)

\* C16 witness: installUpdates has returned after the first of three
\* actions failed and the two after it were installed
C16_Witness ==
    /\ updPc = "done"
    /\ updStatus = <<"failed", "installed", "installed">>
    /\ FailureReported(1)

----------------------------------------------------------------------------
(* C13: the update check of init                                           *)

\* how many times init executed the command
Executed(command) ==
    Cardinality({k \in 1..Len(initCommands) : initCommands[k] = command})
\* the time elapsed since the stored LastUpdateCheck, 0 when none is stored
Elapsed == initNow - (IF initRead = NoTime THEN 0 ELSE initRead)

\* C13: when the environment information was fetched without error init
\* has executed exactly one of CheckForUpdates and RefreshUpdates, and it is
\* CheckForUpdates exactly when the time elapsed since LastUpdateCheck
\* exceeds the update frequency; when fetching failed, it has executed
\* neither and has started no generation of completions
C13_CheckOrRefresh ==
    /\ initPc = "done" =>
          /\ Executed("CheckForUpdates") + Executed("RefreshUpdates") = 1
          /\ updateInterval # NoTime =>
                (Executed("CheckForUpdates") = 1 <=> Elapsed > updateInterval)
    /\ initPc = "failed" =>
          /\ Executed("CheckForUpdates") + Executed("RefreshUpdates") = 0
          /\ initRun = NoRun

\* C13 witness: at time 3 with the last check stored at 2 and a frequency
\* of 1 init has executed RefreshUpdates and started a generation
C13_Witness ==
    /\ initPc = "done"
    /\ initNow = 3
    /\ initRead = 2
    /\ updateInterval = 1
    /\ Executed("RefreshUpdates") = 1
    /\ initRun.pc = "generating"

----------------------------------------------------------------------------
(* C14: the responses to a BUILD request                                   *)

\* C14: every extensionResponse carries the id of the BUILD request whose
\* build sent it; one with isError false is sent only after the stdout of
\* an iOS build had a start-log line or the stderr of an Android build the
\* DevTools line; one with isError true only after the build exited with a
\* code that is not 0
C14_ResponsesOfTheBuild ==
    \A response \in dbgSent :
        LET build == dbgBuilds[response.build]
        IN  /\ response.id = build.id
            /\ ~response.isError =>
                  \/ build.platform = "ios" /\ build.out
                  \/ build.platform = "android" /\ build.err
            /\ response.isError =>
                  build.pc = "exited" /\ build.code # 0

\* C14 witness: the iOS build of request 2 answered without error on its
\* start-log line, then exited with code 1 and answered with the error,
\* while the Android build of request 1 answered nothing
C14_Witness ==
    /\ dbgBuilds[1].platform = "android" /\ dbgBuilds[1].id = 1 /\ dbgBuilds[1].out
    /\ dbgBuilds[2].platform = "ios" /\ dbgBuilds[2].id = 2 /\ dbgBuilds[2].code = 1
    /\ dbgSent = {[build |-> 2, id |-> 2, isError |-> FALSE],
                   [build |-> 2, id |-> 2, isError |-> TRUE]}

----------------------------------------------------------------------------
(* C15: CheckForUpdates                                                    *)

\* the command was executed by CheckForUpdates
Did(command) == \E k \in 1..Len(chkCommands) : chkCommands[k] = command

\* C15: CheckForUpdates executes RefreshUpdates before anything else; with
\* an empty refreshed list it shows no prompt and leaves HasUpdates as it
\* was; with updates listed HasUpdates is true and the prompt offers
\* Install and View; SelectUpdates is executed only after Install was
\* chosen, ShowUpdatesView only after View, neither after a dismissal
C15_PromptOnlyWithUpdates ==
    /\ chkPc # "idle" => chkCommands[1] = "RefreshUpdates"
    /\ chkPc = "refreshing" =>
          chkCommands = <<"RefreshUpdates">> /\ chkPrompt = NoPrompt /\ hasUpdates = chkBefore
    /\ chkPc = "done" /\ chkCount = 0 =>
          chkPrompt = NoPrompt /\ hasUpdates = chkBefore /\ chkCommands = <<"RefreshUpdates">>
    /\ chkPc \in {"prompt", "viewing", "done"} /\ chkCount > 0 =>
          hasUpdates = "true" /\ chkPrompt.choices = <<"Install", "View">>
    /\ chkPc # "idle" =>
          /\ Did("SelectUpdates") => chkChoice = "Install"
          /\ Did("ShowUpdatesView") => chkChoice = "View"
          /\ chkPc = "done" /\ chkCount > 0 /\ chkChoice = "" =>
                ~Did("SelectUpdates") /\ ~Did("ShowUpdatesView")

\* C15 witness: with HasUpdates false before, two updates were listed, the
\* prompt was answered with View and the updates view was shown
C15_Witness ==
    /\ chkPc = "done"
    /\ chkBefore = "false"
    /\ chkCount = 2
    /\ chkChoice = "View"
    /\ chkCommands = <<"RefreshUpdates", "setContext", "ShowUpdatesView">>
    /\ hasUpdates = "true"

----------------------------------------------------------------------------
(* C17: the catalog after a change of sdk-version                          *)

\* provideCompletionItems is called here by a provider that has its catalog
\* loaded, for a project whose one sdk-version has its completions generated
LaterCall(version) ==
    /\ pc \in {"idle", "done"}
    /\ pc' = "matching"
    /\ thisCompletions # Unloaded
    /\ projectValid
    /\ tiappSdk = <<version>>
    /\ version \in generated

\* C17: a call of provideCompletionItems made after the sdk-version of the
\* project changed and the completions of the new version were generated,
\* by a provider that had already served a request, answers what the
\* catalog of the new version gives
C17_AnswersFromNewCatalog ==
    [][\A version \in {"8.1.0.GA", "9.0.0.GA"} :
          LaterCall(version) =>
              provideCompletionItems(requestPrefix', thisCompletions', relatedView)
                  = provideCompletionItems(requestPrefix', Catalog(version), relatedView)]_vars

=============================================================================
